---- MODULE Spec2Model ----
(***************************************************************************)
(* Model of the credential-brokering core of the calendar MCP server:      *)
(* the token stores (in-process, disk-file, distributed key-value), the    *)
(* OAuth flow engine (authorize / provider callback / token exchange) and  *)
(* the refresh_token grant, the proactive refresh controller and the       *)
(* session stores.                                                         *)
(*                                                                         *)
(* Time is Date.now() in milliseconds, as in the source.  JavaScript       *)
(* `undefined` / `null` scalars are 0 (every real token, timestamp and     *)
(* identifier is positive); an optional object is a sequence of length 0   *)
(* or 1.  A JavaScript Map is a sequence of [k, v] entries in insertion    *)
(* order.  RsRecord objects of the in-process store live in a heap, so     *)
(* that the two indices alias one object exactly as in the source.         *)
(*                                                                         *)
(* Fourteen specifications share the state:                                *)
(*   Spec          the authorization flow, one handler per step, KV        *)
(*                 healthy;                                                *)
(*   GrantSpec     refresh_token grants, suspended while the provider is   *)
(*                 called, interleaved with other grants, other exchanges, *)
(*                 the clock and the sweep;                                *)
(*   StoreSpec     direct TokenStore calls with rejected KV writes, the    *)
(*                 debounced save and a restart of the file-backed         *)
(*                 process;                                                *)
(*   KvSpec        KvTokenStore and KvSessionStore calls with rejected KV  *)
(*                 writes and a second instance on the same namespace;     *)
(*   RedirectSpec  handleAuthorize and handleProviderCallback under every  *)
(*                 configuration and every kind of caller redirect URI;    *)
(*   FreshSpec     ensureFreshToken calls, suspended while the provider is *)
(*                 called so that calls overlap, and the API call of the   *)
(*                 Node runtime;                                           *)
(*   SessionSpec   ensure and get on the session store of either runtime,  *)
(*                 with the clock and the sweep;                           *)
(*   SaveSpec      the debounced save of FileTokenStore with a clock that  *)
(*                 resolves its 100 ms;                                    *)
(*   LeakSpec      the error paths that handle the body of a provider      *)
(*                 error response;                                         *)
(*   RaceSpec      handleToken and handleProviderCallback, suspended at    *)
(*                 every await so that calls interleave;                   *)
(*   RotateSpec    the refresh_token grant together with ensureFreshToken; *)
(*   FlushSpec     the saving calls of SaveSpec and flush;                 *)
(*   LiveSpec      the debounced save over unbounded time, with fairness;  *)
(*   RetrySpec     the handleToken calls of RaceSpec for one code, with    *)
(*                 the clock.                                              *)
(* One process is modelled.  Outside RaceSpec and RetrySpec a handler runs *)
(* to its next provider call without interleaving.                         *)
(***************************************************************************)
EXTENDS Integers, Sequences, FiniteSets, TLC

VARIABLES
    backend,     \* which TokenStore implementation the process was started with
    now,         \* Date.now()
    ticks,       \* number of clock advances so far (bounds the run)
    mem,         \* MemoryTokenStore: heap, rsAccessMap, rsRefreshMap, transactions, codes
    sessions,    \* MemorySessionStore.sessions
    recentlyRefreshed, \* the refresh throttle: RS access token -> time of the last refresh
    ensures,     \* in-flight and finished ensureFreshToken calls
    kv,          \* the KV namespace of KvTokenStore: key -> stored value
    file,        \* the persisted file of FileTokenStore: <<>> (absent) or <<records>>
    saveTimer,   \* FileTokenStore.saveDebounceTimer: when it is due (0: not armed)
    seq,         \* source of generateOpaqueToken / crypto.randomUUID values
    config,      \* deployment configuration (provider credentials present)
    flows,       \* per authorization attempt: what the caller and the provider know
    grants,      \* in-flight and finished refresh_token grants (RaceSpec, RetrySpec: handler calls)
    others,      \* number of RS records stored for other callers
    calls,       \* number of mutating TokenStore calls made directly
    restarts,    \* number of process restarts
    written,     \* per key: the expiry fixed at its last write, and its sibling key
    last         \* the last completed call and its result (observation only)

vars == <<backend, now, ticks, mem, sessions, recentlyRefreshed, ensures, kv, file, saveTimer, seq, config, flows, grants, others,
          calls, restarts, written, last>>

-----------------------------------------------------------------------------
(* Bounds of the model *)

MaxTicks == 2          \* clock advances per run
MaxFlows == 1          \* authorization attempts per run
MaxGrants == 2         \* refresh_token grants per run
MaxOthers == 1         \* exchanges of other callers during the grants
MaxGrantTicks == 1     \* clock advances while grants are served
MaxStoreTicks == 1     \* clock advances between direct store calls
MaxCalls == 2          \* mutating TokenStore calls per run
MaxRestarts == 1       \* restarts of the process per run
MaxEnsures == 2        \* ensureFreshToken calls per run
MaxFreshTicks == 1     \* clock advances per run of FreshSpec
MaxSessionCalls == 3   \* session store calls per run of SessionSpec
MaxSessionTicks == 2   \* clock advances per run of SessionSpec
MaxSaveTicks == 3      \* clock advances per run of SaveSpec
MaxNow == 1300000000   \* Date.now() plus a TTL stays a 32-bit integer

(* Program constants (milliseconds, as written in the source) *)

DEFAULT_TXN_TTL_MS == 10 * 60 * 1000
DEFAULT_CODE_TTL_MS == 10 * 60 * 1000
DEFAULT_RS_TOKEN_TTL_MS == 7 * 24 * 60 * 60 * 1000
EXPIRY_BUFFER_MS == 60000
DEFAULT_EXPIRES_IN_S == 3600

(* Capacities of the in-process collections, scaled down from 10_000 /     *)
(* 1_000 and from the eviction batch of 10 so that the model reaches them. *)
MAX_RS_RECORDS == 2
MAX_TRANSACTIONS == 2
EVICT_BATCH == 1

-----------------------------------------------------------------------------
(* JavaScript values *)

Null == <<>>
Some(x) == <<x>>
IsNull(o) == o = <<>>
Val(o) == o[1]

Max(a, b) == IF a >= b THEN a ELSE b

(* JavaScript Map: entries in insertion order *)
EmptyMap == <<>>
MapKeys(m) == {m[i].k : i \in 1..Len(m)}
MapHas(m, key) == key \in MapKeys(m)
MapIdx(m, key) == CHOOSE i \in 1..Len(m) : m[i].k = key
MapGet(m, key) == m[MapIdx(m, key)].v
MapSet(m, key, val) ==
    IF MapHas(m, key)
    THEN [i \in 1..Len(m) |-> IF m[i].k = key THEN [k |-> key, v |-> val] ELSE m[i]]
    ELSE Append(m, [k |-> key, v |-> val])
MapDelete(m, key) == SelectSeq(m, LAMBDA e : e.k # key)
MapSize(m) == Len(m)

-----------------------------------------------------------------------------
(* storage/memory.ts *)

(* evictOldest(map, maxSize, countToRemove): nothing below capacity; else   *)
(* a stable sort by creation time and removal of the first countToRemove.  *)
(* created[i] is the creation time of entry i.                             *)
EvictRank(created, i) ==
    Cardinality({j \in 1..Len(created) :
        \/ created[j] < created[i]
        \/ created[j] = created[i] /\ j < i})

evictOldest(map, created, maxSize, countToRemove) ==
    IF MapSize(map) < maxSize THEN map
    ELSE LET keep == {i \in 1..Len(map) : EvictRank(created, i) >= countToRemove}
             kept(i) == Cardinality({j \in keep : j <= i})
         IN  [n \in 1..Cardinality(keep) |->
                 map[CHOOSE i \in keep : kept(i) = n]]

(* The heap of RsRecord objects: only objects an index refers to are kept,  *)
(* and a new object takes the smallest free address.                        *)
HeapRefs(m) ==
    {m.rsAccessMap[i].v : i \in 1..Len(m.rsAccessMap)} \cup
    {m.rsRefreshMap[i].v : i \in 1..Len(m.rsRefreshMap)}

HeapCollect(m) ==
    [m EXCEPT !.heap = [a \in (DOMAIN m.heap) \cap HeapRefs(m) |-> m.heap[a]]]

HeapNew(m) == CHOOSE a \in 1..(Cardinality(DOMAIN m.heap) + 1) : a \notin DOMAIN m.heap

HeapPut(heap, a, rec) == [x \in DOMAIN heap \cup {a} |-> IF x = a THEN rec ELSE heap[x]]

EmptyMem ==
    [heap |-> <<>>, rsAccessMap |-> EmptyMap, rsRefreshMap |-> EmptyMap,
     transactions |-> EmptyMap, codes |-> EmptyMap]

AccessCreated(m) == [i \in 1..Len(m.rsAccessMap) |-> m.heap[m.rsAccessMap[i].v].created_at]

(* MemoryTokenStore.storeRsMapping(rsAccess, provider, rsRefresh?).         *)
(* rsRefresh = 0 is the omitted argument; uuid is crypto.randomUUID().      *)
MemStoreRsMappingExisting(m0, t, rsAccess, provider, rsRefresh) ==
    LET a == MapGet(m0.rsRefreshMap, rsRefresh)
        old == m0.heap[a]
        rec == [old EXCEPT !.rs_access_token = rsAccess,
                           !.provider = provider,
                           !.expiresAt = t + DEFAULT_RS_TOKEN_TTL_MS]
        m1 == [m0 EXCEPT !.rsAccessMap = MapSet(MapDelete(@, old.rs_access_token), rsAccess, a),
                         !.heap = HeapPut(@, a, rec)]
    IN  [m |-> HeapCollect(m1), r |-> rec]

MemStoreRsMappingNew(m0, t, rsAccess, provider, rsRefresh, uuid) ==
    LET a == HeapNew(m0)
        rec == [rs_access_token |-> rsAccess,
                rs_refresh_token |-> IF rsRefresh # 0 THEN rsRefresh ELSE uuid,
                provider |-> provider,
                created_at |-> t,
                expiresAt |-> t + DEFAULT_RS_TOKEN_TTL_MS]
        m1 == [m0 EXCEPT !.heap = HeapPut(@, a, rec),
                         !.rsAccessMap = MapSet(@, rec.rs_access_token, a),
                         !.rsRefreshMap = MapSet(@, rec.rs_refresh_token, a)]
    IN  [m |-> HeapCollect(m1), r |-> rec]

MemStoreRsMapping(m, t, rsAccess, provider, rsRefresh, uuid) ==
    LET m0 == [m EXCEPT !.rsAccessMap =
                   evictOldest(@, AccessCreated(m), MAX_RS_RECORDS, EVICT_BATCH)]
    IN  IF rsRefresh # 0 /\ MapHas(m0.rsRefreshMap, rsRefresh)
        THEN MemStoreRsMappingExisting(m0, t, rsAccess, provider, rsRefresh)
        ELSE MemStoreRsMappingNew(m0, t, rsAccess, provider, rsRefresh, uuid)

(* The expiry test of every lookup: Date.now() >= entry.expiresAt *)
Expired(t, expiresAt) == t >= expiresAt

(* MemoryTokenStore.getByRsAccess: the record, or null with both indices of *)
(* an expired record deleted.                                               *)
MemGetByRsAccess(m, t, rsAccess) ==
    IF ~MapHas(m.rsAccessMap, rsAccess) THEN [m |-> m, r |-> Null]
    ELSE LET entry == m.heap[MapGet(m.rsAccessMap, rsAccess)]
         IN  IF Expired(t, entry.expiresAt)
             THEN [m |-> HeapCollect(
                            [m EXCEPT !.rsAccessMap = MapDelete(@, rsAccess),
                                      !.rsRefreshMap = MapDelete(@, entry.rs_refresh_token)]),
                   r |-> Null]
             ELSE [m |-> m, r |-> Some(entry)]

(* MemoryTokenStore.getByRsRefresh *)
MemGetByRsRefresh(m, t, rsRefresh) ==
    IF ~MapHas(m.rsRefreshMap, rsRefresh) THEN [m |-> m, r |-> Null]
    ELSE LET entry == m.heap[MapGet(m.rsRefreshMap, rsRefresh)]
         IN  IF Expired(t, entry.expiresAt)
             THEN [m |-> HeapCollect(
                            [m EXCEPT !.rsAccessMap = MapDelete(@, entry.rs_access_token),
                                      !.rsRefreshMap = MapDelete(@, rsRefresh)]),
                   r |-> Null]
             ELSE [m |-> m, r |-> Some(entry)]

(* MemoryTokenStore.updateByRsRefresh(rsRefresh, provider, maybeNewRsAccess?). *)
(* No expiry test here: only presence in the refresh index is checked.         *)
MemUpdateByRsRefresh(m, t, rsRefresh, provider, maybeNewRsAccess) ==
    IF ~MapHas(m.rsRefreshMap, rsRefresh) THEN [m |-> m, r |-> Null]
    ELSE LET a == MapGet(m.rsRefreshMap, rsRefresh)
             old == m.heap[a]
             rot == IF maybeNewRsAccess # 0
                    THEN [old EXCEPT !.rs_access_token = maybeNewRsAccess,
                                     !.created_at = t]
                    ELSE old
             rec == [rot EXCEPT !.provider = provider,
                                !.expiresAt = t + DEFAULT_RS_TOKEN_TTL_MS]
             acc0 == IF maybeNewRsAccess # 0
                     THEN MapDelete(m.rsAccessMap, old.rs_access_token)
                     ELSE m.rsAccessMap
             m1 == [m EXCEPT !.heap = HeapPut(@, a, rec),
                             !.rsAccessMap = MapSet(acc0, rec.rs_access_token, a),
                             !.rsRefreshMap = MapSet(@, rsRefresh, a)]
         IN  [m |-> HeapCollect(m1), r |-> Some(rec)]

(* MemoryTokenStore.saveTransaction(txnId, txn): default TTL *)
MemSaveTransaction(m, t, txnId, txn) ==
    LET created == [i \in 1..Len(m.transactions) |-> m.transactions[i].v.createdAt]
        txns0 == evictOldest(m.transactions, created, MAX_TRANSACTIONS, EVICT_BATCH)
    IN  [m EXCEPT !.transactions =
            MapSet(txns0, txnId, [value |-> txn,
                                  expiresAt |-> t + DEFAULT_TXN_TTL_MS,
                                  createdAt |-> t])]

(* MemoryTokenStore.getTransaction *)
MemGetTransaction(m, t, txnId) ==
    IF ~MapHas(m.transactions, txnId) THEN [m |-> m, r |-> Null]
    ELSE LET entry == MapGet(m.transactions, txnId)
         IN  IF Expired(t, entry.expiresAt)
             THEN [m |-> [m EXCEPT !.transactions = MapDelete(@, txnId)], r |-> Null]
             ELSE [m |-> m, r |-> Some(entry.value)]

(* MemoryTokenStore.deleteTransaction *)
MemDeleteTransaction(m, txnId) == [m EXCEPT !.transactions = MapDelete(@, txnId)]

(* MemoryTokenStore.saveCode(code, txnId): default TTL *)
MemSaveCode(m, t, code, txnId) ==
    [m EXCEPT !.codes = MapSet(@, code, [value |-> txnId,
                                         expiresAt |-> t + DEFAULT_CODE_TTL_MS,
                                         createdAt |-> t])]

(* MemoryTokenStore.getTxnIdByCode: the txnId, or 0 (null) *)
MemGetTxnIdByCode(m, t, code) ==
    IF ~MapHas(m.codes, code) THEN [m |-> m, r |-> 0]
    ELSE LET entry == MapGet(m.codes, code)
         IN  IF Expired(t, entry.expiresAt)
             THEN [m |-> [m EXCEPT !.codes = MapDelete(@, code)], r |-> 0]
             ELSE [m |-> m, r |-> entry.value]

(* MemoryTokenStore.deleteCode *)
MemDeleteCode(m, code) == [m EXCEPT !.codes = MapDelete(@, code)]

(* cleanupExpired(map) for the transactions and codes *)
cleanupExpired(map, t) == SelectSeq(map, LAMBDA e : ~Expired(t, e.v.expiresAt))

(* MemoryTokenStore.cleanup(): the periodic sweep *)
MemCleanup(m, t) ==
    HeapCollect(
        [m EXCEPT !.rsAccessMap = SelectSeq(@, LAMBDA e : ~Expired(t, m.heap[e.v].expiresAt)),
                  !.rsRefreshMap = SelectSeq(@, LAMBDA e : ~Expired(t, m.heap[e.v].expiresAt)),
                  !.transactions = cleanupExpired(@, t),
                  !.codes = cleanupExpired(@, t)])

(* MemorySessionStore (the in-process session store).  A session is         *)
(* [created_at, expiresAt]; MAX_SESSIONS is scaled down from 10_000.        *)
DEFAULT_SESSION_TTL_MS == 24 * 60 * 60 * 1000
MAX_SESSIONS == 2

SessionCreated(s) == [i \in 1..Len(s) |-> s[i].v.created_at]

(* MemorySessionStore.ensure(sessionId): an existing session has its TTL    *)
(* extended; else the oldest-created session is evicted at capacity and a   *)
(* new session is set.                                                      *)
MemSessionEnsure(s, t, sessionId) ==
    IF MapHas(s, sessionId)
    THEN MapSet(s, sessionId, [MapGet(s, sessionId) EXCEPT !.expiresAt = t + DEFAULT_SESSION_TTL_MS])
    ELSE LET oldest == CHOOSE i \in 1..Len(s) : EvictRank(SessionCreated(s), i) = 0
             s0 == IF MapSize(s) >= MAX_SESSIONS /\ Len(s) > 0
                   THEN MapDelete(s, s[oldest].k) ELSE s
         IN  MapSet(s0, sessionId, [created_at |-> t,
                                    expiresAt |-> t + DEFAULT_SESSION_TTL_MS])

(* MemorySessionStore.get: the session, or null with an expired one deleted *)
MemSessionGet(s, t, sessionId) ==
    IF ~MapHas(s, sessionId) THEN [s |-> s, r |-> Null]
    ELSE LET session == MapGet(s, sessionId)
         IN  IF Expired(t, session.expiresAt)
             THEN [s |-> MapDelete(s, sessionId), r |-> Null]
             ELSE [s |-> s, r |-> Some(session)]

(* MemorySessionStore.put(sessionId, value): no capacity test *)
MemSessionPut(s, t, sessionId, value) ==
    MapSet(s, sessionId, [created_at |-> value.created_at,
                          expiresAt |-> t + DEFAULT_SESSION_TTL_MS])

(* MemorySessionStore.delete *)
MemSessionDelete(s, sessionId) == MapDelete(s, sessionId)

(* MemorySessionStore.cleanup(): the periodic sweep of the sessions *)
MemSessionCleanup(s, t) == cleanupExpired(s, t)

-----------------------------------------------------------------------------
(* storage/kv.ts: the KV namespace *)

(* ttl(seconds): absolute expiration in seconds *)
ttl(t, seconds) == (t \div 1000) + seconds

KV_TTL_SECONDS == 600

AccessKey(tok) == <<"rs:access", tok>>
RefreshKey(tok) == <<"rs:refresh", tok>>
TxnKey(txnId) == <<"txn", txnId>>
CodeKey(code) == <<"code", code>>

(* kv.put(key, value, {expiration}) and kv.delete(key); expiration 0 is none *)
KvPut(k, key, value, expiration) ==
    [x \in DOMAIN k \cup {key} |->
        IF x = key THEN [val |-> value, expiration |-> expiration] ELSE k[x]]
KvDelete(k, key) == [x \in DOMAIN k \ {key} |-> k[x]]

(* getJson(key): the stored value while the key exists and has not reached *)
(* its expiration; toJson/fromJson keep every defined field of the value.  *)
KvGetJson(k, t, key) ==
    IF key \in DOMAIN k /\ (k[key].expiration = 0 \/ (t \div 1000) < k[key].expiration)
    THEN Some(k[key].val)
    ELSE Null

(* A put or delete named in `fails` rejects and changes nothing. *)
KvTryPut(k, fails, name, key, value, expiration) ==
    IF name \in fails THEN k ELSE KvPut(k, key, value, expiration)
KvTryDelete(k, fails, name, key) ==
    IF name \in fails THEN k ELSE KvDelete(k, key)

(* A storeRsMapping that writes the fallback only once the KV puts went     *)
(* through                                                                  *)
KvStoreRsMappingKvFirst(w, t, rsAccess, provider, rsRefresh, uuid, uuidFallback, fails) ==
    LET rec == [rs_access_token |-> rsAccess,
                rs_refresh_token |-> IF rsRefresh # 0 THEN rsRefresh ELSE uuid,
                provider |-> provider,
                created_at |-> t]
        k1 == KvTryPut(w.kv, fails, "putAccess", AccessKey(rec.rs_access_token), rec, 0)
        k2 == KvTryPut(k1, fails, "putRefresh", RefreshKey(rec.rs_refresh_token), rec, 0)
        m1 == IF fails = {} THEN MemStoreRsMapping(w.mem, t, rsAccess, provider, rsRefresh,
                                                   uuidFallback).m
              ELSE w.mem
    IN  [w |-> [w EXCEPT !.mem = m1, !.kv = k2], r |-> rec, threw |-> fails # {}]

(* KvTokenStore.storeRsMapping: the in-process fallback first, then both    *)
(* puts; a rejected put is logged and swallowed.  The record returned is    *)
(* built before the fallback is written, with its own randomUUID().         *)
KvStoreRsMapping(w, t, rsAccess, provider, rsRefresh, uuid, uuidFallback, fails) ==
    LET rec == [rs_access_token |-> rsAccess,
                rs_refresh_token |-> IF rsRefresh # 0 THEN rsRefresh ELSE uuid,
                provider |-> provider,
                created_at |-> t]
        m1 == MemStoreRsMapping(w.mem, t, rsAccess, provider, rsRefresh, uuidFallback).m
        k1 == KvTryPut(w.kv, fails, "putAccess", AccessKey(rec.rs_access_token), rec, 0)
        k2 == KvTryPut(k1, fails, "putRefresh", RefreshKey(rec.rs_refresh_token), rec, 0)
    IN  [w |-> [w EXCEPT !.mem = m1, !.kv = k2], r |-> rec, threw |-> FALSE]

(* KvTokenStore.getByRsAccess / getByRsRefresh: the KV value when present,  *)
(* else the fallback's lookup.                                              *)
KvGetByRsAccess(w, t, rsAccess) ==
    LET rec == KvGetJson(w.kv, t, AccessKey(rsAccess))
        fb == MemGetByRsAccess(w.mem, t, rsAccess)
    IN  IF ~IsNull(rec) THEN [w |-> w, r |-> rec, threw |-> FALSE]
        ELSE [w |-> [w EXCEPT !.mem = fb.m], r |-> fb.r, threw |-> FALSE]

KvGetByRsRefresh(w, t, rsRefresh) ==
    LET rec == KvGetJson(w.kv, t, RefreshKey(rsRefresh))
        fb == MemGetByRsRefresh(w.mem, t, rsRefresh)
    IN  IF ~IsNull(rec) THEN [w |-> w, r |-> rec, threw |-> FALSE]
        ELSE [w |-> [w EXCEPT !.mem = fb.m], r |-> fb.r, threw |-> FALSE]

(* KvTokenStore.updateByRsRefresh.  The delete of the old access key and    *)
(* the two puts are issued together under Promise.all; "delAccessLast" in   *)
(* fails is the outcome in which the namespace applies the delete after the *)
(* puts (it matters only when the old and the new access key are the same). *)
KvUpdateByRsRefresh(w, t, rsRefresh, provider, maybeNewRsAccess, fails) ==
    LET existing == KvGetJson(w.kv, t, RefreshKey(rsRefresh))
        fb == MemUpdateByRsRefresh(w.mem, t, rsRefresh, provider, maybeNewRsAccess)
    IN  IF IsNull(existing)
        THEN [w |-> [w EXCEPT !.mem = fb.m], r |-> fb.r, threw |-> FALSE]
        ELSE LET next == [rs_access_token |-> IF maybeNewRsAccess # 0
                                              THEN maybeNewRsAccess
                                              ELSE Val(existing).rs_access_token,
                          rs_refresh_token |-> rsRefresh,
                          provider |-> provider,
                          created_at |-> t]
                 oldKey == AccessKey(Val(existing).rs_access_token)
                 late == "delAccessLast" \in fails
                 k1 == IF late THEN w.kv ELSE KvTryDelete(w.kv, fails, "delAccess", oldKey)
                 k2 == KvTryPut(k1, fails, "putAccess", AccessKey(next.rs_access_token), next, 0)
                 k3 == KvTryPut(k2, fails, "putRefresh", RefreshKey(rsRefresh), next, 0)
                 k4 == IF late THEN KvTryDelete(k3, fails, "delAccess", oldKey) ELSE k3
             IN  [w |-> [w EXCEPT !.mem = fb.m, !.kv = k4], r |-> Some(next), threw |-> FALSE]

(* KvTokenStore.saveTransaction: fallback first, then a put that may fail *)
KvSaveTransaction(w, t, txnId, txn, fails) ==
    [w |-> [w EXCEPT !.mem = MemSaveTransaction(@, t, txnId, txn),
                     !.kv = KvTryPut(@, fails, "putTxn", TxnKey(txnId), txn,
                                     ttl(t, KV_TTL_SECONDS))],
     r |-> 0, threw |-> FALSE]

(* KvTokenStore.getTransaction *)
KvGetTransaction(w, t, txnId) ==
    LET txn == KvGetJson(w.kv, t, TxnKey(txnId))
        fb == MemGetTransaction(w.mem, t, txnId)
    IN  IF ~IsNull(txn) THEN [w |-> w, r |-> txn, threw |-> FALSE]
        ELSE [w |-> [w EXCEPT !.mem = fb.m], r |-> fb.r, threw |-> FALSE]

(* KvTokenStore.deleteTransaction: kv.delete is awaited first and is not    *)
(* guarded; when it rejects the fallback is not reached.                    *)
KvDeleteTransaction(w, txnId, fails) ==
    IF "delTxn" \in fails THEN [w |-> w, r |-> 0, threw |-> TRUE]
    ELSE [w |-> [w EXCEPT !.kv = KvDelete(@, TxnKey(txnId)),
                          !.mem = MemDeleteTransaction(@, txnId)],
          r |-> 0, threw |-> FALSE]

(* KvTokenStore.saveCode *)
KvSaveCode(w, t, code, txnId, fails) ==
    [w |-> [w EXCEPT !.mem = MemSaveCode(@, t, code, txnId),
                     !.kv = KvTryPut(@, fails, "putCode", CodeKey(code), [v |-> txnId],
                                     ttl(t, KV_TTL_SECONDS))],
     r |-> 0, threw |-> FALSE]

(* KvTokenStore.getTxnIdByCode: obj?.v ?? fallback *)
KvGetTxnIdByCode(w, t, code) ==
    LET obj == KvGetJson(w.kv, t, CodeKey(code))
        fb == MemGetTxnIdByCode(w.mem, t, code)
    IN  IF ~IsNull(obj) THEN [w |-> w, r |-> Val(obj).v, threw |-> FALSE]
        ELSE [w |-> [w EXCEPT !.mem = fb.m], r |-> fb.r, threw |-> FALSE]

(* KvTokenStore.deleteCode *)
KvDeleteCode(w, code, fails) ==
    IF "delCode" \in fails THEN [w |-> w, r |-> 0, threw |-> TRUE]
    ELSE [w |-> [w EXCEPT !.kv = KvDelete(@, CodeKey(code)),
                          !.mem = MemDeleteCode(@, code)],
          r |-> 0, threw |-> FALSE]

(* KvSessionStore: sessions in the KV namespace under session:<id>, with a  *)
(* MemorySessionStore as fallback.  ss is [sessions, kv].                   *)
SESSION_TTL_SECONDS == 24 * 60 * 60

SessionKey(sessionId) == <<"session", sessionId>>

(* KvSessionStore.putSession: kv.put is awaited first and is not guarded;   *)
(* the fallback is written only after it went through.                      *)
KvPutSession(ss, t, key, value, fails) ==
    IF "putSession" \in fails THEN [ss |-> ss, threw |-> TRUE]
    ELSE [ss |-> [sessions |-> MemSessionPut(ss.sessions, t, key, value),
                  kv |-> KvPut(ss.kv, SessionKey(key), value, ttl(t, SESSION_TTL_SECONDS))],
          threw |-> FALSE]

(* KvSessionStore.getSession: the KV value when present, else the fallback *)
KvGetSession(ss, t, key) ==
    LET raw == KvGetJson(ss.kv, t, SessionKey(key))
        fb == MemSessionGet(ss.sessions, t, key)
    IN  IF IsNull(raw) THEN [ss |-> [ss EXCEPT !.sessions = fb.s], r |-> fb.r]
        ELSE [ss |-> ss, r |-> raw]

(* KvSessionStore.ensure *)
KvSessionEnsure(ss, t, sessionId, fails) ==
    LET existing == KvGetSession(ss, t, sessionId)
    IN  IF IsNull(existing.r)
        THEN KvPutSession(existing.ss, t, sessionId, [created_at |-> t], fails)
        ELSE [ss |-> existing.ss, threw |-> FALSE]

(* KvSessionStore.get *)
KvSessionGet(ss, t, sessionId) == KvGetSession(ss, t, sessionId)

(* KvSessionStore.put *)
KvSessionPut(ss, t, sessionId, value, fails) == KvPutSession(ss, t, sessionId, value, fails)

(* KvSessionStore.delete: kv.delete first, unguarded, then the fallback *)
KvSessionDelete(ss, sessionId, fails) ==
    IF "delSession" \in fails THEN [ss |-> ss, threw |-> TRUE]
    ELSE [ss |-> [sessions |-> MemSessionDelete(ss.sessions, sessionId),
                  kv |-> KvDelete(ss.kv, SessionKey(sessionId))],
          threw |-> FALSE]

-----------------------------------------------------------------------------
(* storage/file.ts *)

(* FileTokenStore.saveImmediate: the file holds the values of rsAccessMap *)
FileRecords(m) == [i \in 1..Len(m.rsAccessMap) |-> m.heap[m.rsAccessMap[i].v]]

(* FileTokenStore.load: records whose provider token has expired are        *)
(* dropped; each kept record becomes one object in both indices, with       *)
(* expiresAt taken from the provider token's expires_at.                    *)
LoadKeeps(rec, t) == ~(rec.provider.expires_at # 0 /\ t >= rec.provider.expires_at)

(* A load that stamps every record with the time of the load *)
LoadExpiresAtLoadTime(rec, t) == t

LoadExpiresAt(rec, t) ==
    IF rec.provider.expires_at # 0 THEN rec.provider.expires_at
    ELSE t + 7 * 24 * 60 * 60 * 1000

RECURSIVE LoadRecords(_, _, _)
LoadRecords(m, records, t) ==
    IF records = <<>> THEN m
    ELSE LET rec == Head(records)
             a == HeapNew(m)
             obj == [rec EXCEPT !.expiresAt = LoadExpiresAt(rec, t)]
             m1 == [m EXCEPT !.heap = HeapPut(@, a, obj),
                             !.rsAccessMap = MapSet(@, rec.rs_access_token, a),
                             !.rsRefreshMap = MapSet(@, rec.rs_refresh_token, a)]
         IN  LoadRecords(HeapCollect(m1), Tail(records), t)

FileLoad(f, t) ==
    IF IsNull(f) THEN EmptyMem
    ELSE LoadRecords(EmptyMem, SelectSeq(Val(f), LAMBDA rec : LoadKeeps(rec, t)), t)

-----------------------------------------------------------------------------
(* The TokenStore interface on the configured backend.  w is the store's    *)
(* state [mem, kv, saveTimer]; every operation returns the new state, its   *)
(* result r and whether it threw.                                           *)

Backends == {"memory", "file", "kv"}

(* FileTokenStore.save(): clear the debounce timer and arm it anew *)
SAVE_DEBOUNCE_MS == 100

FileSave(b, w, t) ==
    IF b = "file" THEN [w EXCEPT !.saveTimer = t + SAVE_DEBOUNCE_MS] ELSE w

storeRsMapping(b, w, t, rsAccess, provider, rsRefresh, uuid, uuidFallback, fails) ==
    IF b = "kv"
    THEN KvStoreRsMapping(w, t, rsAccess, provider, rsRefresh, uuid, uuidFallback, fails)
    ELSE LET res == MemStoreRsMapping(w.mem, t, rsAccess, provider, rsRefresh, uuid)
         IN  [w |-> FileSave(b, [w EXCEPT !.mem = res.m], t), r |-> res.r, threw |-> FALSE]

getByRsAccess(b, w, t, rsAccess) ==
    IF b = "kv" THEN KvGetByRsAccess(w, t, rsAccess)
    ELSE LET res == MemGetByRsAccess(w.mem, t, rsAccess)
         IN  [w |-> [w EXCEPT !.mem = res.m], r |-> res.r, threw |-> FALSE]

getByRsRefresh(b, w, t, rsRefresh) ==
    IF b = "kv" THEN KvGetByRsRefresh(w, t, rsRefresh)
    ELSE LET res == MemGetByRsRefresh(w.mem, t, rsRefresh)
         IN  [w |-> [w EXCEPT !.mem = res.m], r |-> res.r, threw |-> FALSE]

updateByRsRefresh(b, w, t, rsRefresh, provider, maybeNewRsAccess, fails) ==
    IF b = "kv" THEN KvUpdateByRsRefresh(w, t, rsRefresh, provider, maybeNewRsAccess, fails)
    ELSE LET res == MemUpdateByRsRefresh(w.mem, t, rsRefresh, provider, maybeNewRsAccess)
         IN  [w |-> FileSave(b, [w EXCEPT !.mem = res.m], t), r |-> res.r, threw |-> FALSE]

saveTransaction(b, w, t, txnId, txn, fails) ==
    IF b = "kv" THEN KvSaveTransaction(w, t, txnId, txn, fails)
    ELSE [w |-> [w EXCEPT !.mem = MemSaveTransaction(@, t, txnId, txn)],
          r |-> 0, threw |-> FALSE]

getTransaction(b, w, t, txnId) ==
    IF b = "kv" THEN KvGetTransaction(w, t, txnId)
    ELSE LET res == MemGetTransaction(w.mem, t, txnId)
         IN  [w |-> [w EXCEPT !.mem = res.m], r |-> res.r, threw |-> FALSE]

deleteTransaction(b, w, txnId, fails) ==
    IF b = "kv" THEN KvDeleteTransaction(w, txnId, fails)
    ELSE [w |-> [w EXCEPT !.mem = MemDeleteTransaction(@, txnId)], r |-> 0, threw |-> FALSE]

(* A saveCode that also calls save(), as the RS record operations do *)
saveCodePersists(b, w, t, code, txnId, fails) ==
    IF b = "kv" THEN KvSaveCode(w, t, code, txnId, fails)
    ELSE [w |-> FileSave(b, [w EXCEPT !.mem = MemSaveCode(@, t, code, txnId)], t),
          r |-> 0, threw |-> FALSE]

saveCode(b, w, t, code, txnId, fails) ==
    IF b = "kv" THEN KvSaveCode(w, t, code, txnId, fails)
    ELSE [w |-> [w EXCEPT !.mem = MemSaveCode(@, t, code, txnId)], r |-> 0, threw |-> FALSE]

getTxnIdByCode(b, w, t, code) ==
    IF b = "kv" THEN KvGetTxnIdByCode(w, t, code)
    ELSE LET res == MemGetTxnIdByCode(w.mem, t, code)
         IN  [w |-> [w EXCEPT !.mem = res.m], r |-> res.r, threw |-> FALSE]

deleteCode(b, w, code, fails) ==
    IF b = "kv" THEN KvDeleteCode(w, code, fails)
    ELSE [w |-> [w EXCEPT !.mem = MemDeleteCode(@, code)], r |-> 0, threw |-> FALSE]

(* The store state the process holds *)
World == [mem |-> mem, kv |-> kv, saveTimer |-> saveTimer]

SetWorld(w) ==
    /\ mem' = w.mem
    /\ kv' = w.kv
    /\ saveTimer' = w.saveTimer


-----------------------------------------------------------------------------
(* oauth/flow.ts *)

(* generateOpaqueToken(): the n-th value generated in this run.  Values are *)
(* random 128/192-bit strings in the source, so they never repeat.          *)
Opaque(n) == n

(* sha256B64UrlAsync over the verifiers of the model: an injective digest   *)
(* whose values are no verifier.                                            *)
Verifiers == {1, 2}
sha256B64UrlAsync(input) == 10 + input

Challenges == {0, 11}
Methods == {"S256", "plain"}

(* A redirect URI as new URL(uri) takes it apart: origin is protocol//host, *)
(* search is the query string.  NoUri is the empty string; a string that    *)
(* new URL() rejects has no origin.                                         *)
NoUri == [origin |-> "", hostname |-> "", pathname |-> "", search |-> ""]
AppUri ==
    [origin |-> "https://app.example", hostname |-> "app.example",
     pathname |-> "/cb", search |-> ""]
AppUriWithQuery == [AppUri EXCEPT !.search = "?x=1"]
LoopbackUri ==
    [origin |-> "http://localhost:3000", hostname |-> "localhost",
     pathname |-> "/cb", search |-> ""]
ForeignUri ==
    [origin |-> "https://other.example", hostname |-> "other.example",
     pathname |-> "/cb", search |-> ""]
MalformedUri == [origin |-> "", hostname |-> "", pathname |-> "cb", search |-> ""]

(* oauthConfig.redirectUri and oauthConfig.redirectAllowlist *)
DefaultRedirectUri ==
    [origin |-> "https://rs.example", hostname |-> "rs.example",
     pathname |-> "/done", search |-> ""]
RedirectAllowlist == {AppUri}

RedirectUris == {NoUri, AppUri}

(* An isAllowedRedirect that accepts a loopback host in every deployment *)
isAllowedRedirectLoopbackAlways(uri, cfg) ==
    LET allowed == RedirectAllowlist \cup {DefaultRedirectUri}
        loopback == {"localhost", "127.0.0.1", "::1"}
    IN  IF uri.origin = "" THEN FALSE
        ELSE IF uri.hostname \in loopback THEN TRUE
        ELSE IF cfg.redirectAllowAll THEN TRUE
        ELSE [uri EXCEPT !.search = ""] \in allowed \/ uri \in allowed

(* isAllowedRedirect(uri, config, isDev) *)
isAllowedRedirect(uri, cfg) ==
    LET allowed == RedirectAllowlist \cup {DefaultRedirectUri}
        loopback == {"localhost", "127.0.0.1", "::1"}
    IN  IF uri.origin = "" THEN FALSE
        ELSE IF cfg.isDev /\ uri.hostname \in loopback THEN TRUE
        ELSE IF cfg.redirectAllowAll THEN TRUE
        ELSE [uri EXCEPT !.search = ""] \in allowed \/ uri \in allowed

(* isAllowedRedirect(...) ? uri : oauthConfig.redirectUri *)
SafeRedirect(uri, cfg) == IF isAllowedRedirect(uri, cfg) THEN uri ELSE DefaultRedirectUri

(* What the provider's token endpoint may answer: resp.ok, and the fields   *)
(* of the JSON body (0 = absent).                                           *)
ProviderAnswers ==
    {[ok |-> FALSE, access_token |-> 0, refresh_token |-> 0, expires_in |-> 0],
     [ok |-> TRUE, access_token |-> 0, refresh_token |-> 0, expires_in |-> 0],
     [ok |-> TRUE, access_token |-> 101, refresh_token |-> 201, expires_in |-> 3600],
     [ok |-> TRUE, access_token |-> 101, refresh_token |-> 0, expires_in |-> 0]}

(* Date.now() + Number(data.expires_in ?? 3600) * 1000 *)
ExpiresAt(t, expires_in) ==
    t + (IF expires_in # 0 THEN expires_in ELSE DEFAULT_EXPIRES_IN_S) * 1000

Failure(w, error) == [w |-> w, ok |-> FALSE, error |-> error]

(* base64UrlEncodeJson(obj): JSON.stringify leaves out the properties that  *)
(* are undefined; the base64url text stands for that JSON object.           *)
base64UrlEncodeJson(obj) ==
    [key \in {x \in DOMAIN obj : ~IsNull(obj[x])} |-> Val(obj[key])]

(* base64UrlDecodeJson(value) of a text that base64UrlEncodeJson produced,  *)
(* and the read of a property of the result (Null is undefined).            *)
base64UrlDecodeJson(value) == value
Property(decoded, key) == IF key \in DOMAIN decoded THEN Some(decoded[key]) ELSE Null

(* redirect.searchParams.set('state', s) under if (s): an absent or empty   *)
(* state sets no parameter.                                                 *)
StateParam(s) == IF ~IsNull(s) /\ Val(s) # "" THEN s ELSE Null

(* A handleAuthorize that saves the Transaction before it looks at the     *)
(* challenge                                                                *)
handleAuthorizeSavesFirst(b, w, t, cfg, input, txnId, code) ==
    LET txn == [codeChallenge |-> input.codeChallenge, state |-> input.state,
                createdAt |-> t, provider |-> Null]
        w1 == saveTransaction(b, w, t, txnId, txn, {}).w
    IN  IF input.redirectUri = NoUri THEN Failure(w, "invalid_request")
        ELSE IF input.codeChallenge = 0 \/ input.codeChallengeMethod # "S256"
        THEN Failure(w1, "invalid_request")
        ELSE IF cfg.hasCreds
        THEN [w |-> w1, ok |-> TRUE, error |-> "", txnId |-> txnId,
              to |-> "provider", code |-> 0, redirectTo |-> NoUri, state |-> Null,
              compositeState |-> base64UrlEncodeJson(
                  [tid |-> Some(txnId), cs |-> input.state,
                   cr |-> Some(input.redirectUri)])]
        ELSE [w |-> saveCode(b, w1, t, code, txnId, {}).w, ok |-> TRUE, error |-> "",
              txnId |-> txnId, to |-> "client", code |-> code,
              redirectTo |-> SafeRedirect(input.redirectUri, cfg),
              state |-> StateParam(input.state), compositeState |-> <<>>]

(* handleAuthorize: the PKCE check, the Transaction, then the redirect to   *)
(* the provider or, without provider credentials, a self-issued code.       *)
(* txnId and code are the generateOpaqueToken() values of this call.        *)
handleAuthorize(b, w, t, cfg, input, txnId, code) ==
    IF input.redirectUri = NoUri THEN Failure(w, "invalid_request")
    ELSE IF input.codeChallenge = 0 \/ input.codeChallengeMethod # "S256"
    THEN Failure(w, "invalid_request")
    ELSE LET txn == [codeChallenge |-> input.codeChallenge,
                     state |-> input.state,
                     createdAt |-> t,
                     provider |-> Null]
             w1 == saveTransaction(b, w, t, txnId, txn, {}).w
         IN  IF cfg.hasCreds
             THEN [w |-> w1, ok |-> TRUE, error |-> "", txnId |-> txnId,
                   to |-> "provider", code |-> 0, redirectTo |-> NoUri, state |-> Null,
                   compositeState |-> base64UrlEncodeJson(
                       [tid |-> Some(txnId), cs |-> input.state,
                        cr |-> Some(input.redirectUri)])]
             ELSE [w |-> saveCode(b, w1, t, code, txnId, {}).w, ok |-> TRUE, error |-> "",
                   txnId |-> txnId, to |-> "client", code |-> code,
                   redirectTo |-> SafeRedirect(input.redirectUri, cfg),
                   state |-> StateParam(input.state), compositeState |-> <<>>]

(* A failed handleProviderCallback; fetched tells whether the provider's    *)
(* token endpoint had been called.                                          *)
CallbackFailure(w, error, fetched) ==
    [w |-> w, ok |-> FALSE, error |-> error, fetched |-> fetched]

(* A handleProviderCallback that asks the provider before it looks for the  *)
(* Transaction                                                              *)
handleProviderCallbackFetchesFirst(b, w, t, cfg, compositeState, answer, asCode) ==
    LET decoded == base64UrlDecodeJson(compositeState)
        txnId == IF ~IsNull(Property(decoded, "tid")) THEN decoded.tid ELSE compositeState
        cr == IF ~IsNull(Property(decoded, "cr")) THEN decoded.cr ELSE NoUri
        got == getTransaction(b, w, t, txnId)
    IN  IF IsNull(got.r) THEN CallbackFailure(got.w, "unknown_txn", TRUE)
        ELSE IF ~answer.ok THEN CallbackFailure(got.w, "provider_token_error", TRUE)
        ELSE IF answer.access_token = 0 THEN CallbackFailure(got.w, "provider_no_token", TRUE)
        ELSE LET providerTokens == [access_token |-> answer.access_token,
                                    refresh_token |-> answer.refresh_token,
                                    expires_at |-> ExpiresAt(t, answer.expires_in)]
                 txn == [Val(got.r) EXCEPT !.provider = Some(providerTokens)]
                 w1 == saveTransaction(b, got.w, t, txnId, txn, {}).w
                 w2 == saveCode(b, w1, t, asCode, txnId, {}).w
                 clientRedirect == IF cr # NoUri THEN cr ELSE DefaultRedirectUri
             IN  [w |-> w2, ok |-> TRUE, error |-> "", code |-> asCode,
                  txnId |-> txnId, providerTokens |-> providerTokens, fetched |-> TRUE,
                  redirectTo |-> SafeRedirect(clientRedirect, cfg),
                  state |-> StateParam(Property(decoded, "cs"))]

(* handleProviderCallback: input.compositeState carries the txnId, the      *)
(* caller's state and the caller's redirect URI; answer is what the         *)
(* provider's token endpoint returns for input.providerCode.  The endpoint  *)
(* is called only once the Transaction was found.                           *)
handleProviderCallback(b, w, t, cfg, compositeState, answer, asCode) ==
    LET decoded == base64UrlDecodeJson(compositeState)
        txnId == IF ~IsNull(Property(decoded, "tid")) THEN decoded.tid ELSE compositeState
        cr == IF ~IsNull(Property(decoded, "cr")) THEN decoded.cr ELSE NoUri
        got == getTransaction(b, w, t, txnId)
    IN  IF IsNull(got.r) THEN CallbackFailure(got.w, "unknown_txn", FALSE)
        ELSE IF ~answer.ok THEN CallbackFailure(got.w, "provider_token_error", TRUE)
        ELSE IF answer.access_token = 0 THEN CallbackFailure(got.w, "provider_no_token", TRUE)
        ELSE LET providerTokens == [access_token |-> answer.access_token,
                                    refresh_token |-> answer.refresh_token,
                                    expires_at |-> ExpiresAt(t, answer.expires_in)]
                 txn == [Val(got.r) EXCEPT !.provider = Some(providerTokens)]
                 w1 == saveTransaction(b, got.w, t, txnId, txn, {}).w
                 w2 == saveCode(b, w1, t, asCode, txnId, {}).w
                 clientRedirect == IF cr # NoUri THEN cr ELSE DefaultRedirectUri
             IN  [w |-> w2, ok |-> TRUE, error |-> "", code |-> asCode,
                  txnId |-> txnId, providerTokens |-> providerTokens, fetched |-> TRUE,
                  redirectTo |-> SafeRedirect(clientRedirect, cfg),
                  state |-> StateParam(Property(decoded, "cs"))]

PkceMatchesPlain(expected, codeVerifier) == expected = codeVerifier

(* The PKCE comparison of handleToken: expected !== actual *)
PkceMatches(expected, codeVerifier) == expected = sha256B64UrlAsync(codeVerifier)

(* txn.provider?.access_token *)
HasProviderTokens(txn) == ~IsNull(txn.provider) /\ Val(txn.provider).access_token # 0

(* handleToken, authorization_code grant: mint the RS pair, bind it with    *)
(* storeRsMapping when the Transaction carries provider tokens, then        *)
(* delete the Transaction and the code.                                     *)
TokenMintNoRefresh(b, w, t, txn, rsAccess, rsRefresh) ==
    IF HasProviderTokens(txn)
    THEN storeRsMapping(b, w, t, rsAccess, Val(txn.provider), 0, rsRefresh + 1, rsRefresh + 1, {}).w
    ELSE w

TokenMint(b, w, t, txn, rsAccess, rsRefresh) ==
    IF HasProviderTokens(txn)
    THEN storeRsMapping(b, w, t, rsAccess, Val(txn.provider), rsRefresh, 0, 0, {}).w
    ELSE w

TokenSingleUseKeepsCode(b, w, txnId, code) ==
    deleteTransaction(b, w, txnId, {}).w

TokenSingleUse(b, w, txnId, code) ==
    deleteCode(b, deleteTransaction(b, w, txnId, {}).w, code, {}).w

handleTokenCode(b, w, t, code, codeVerifier, rsAccess, rsRefresh) ==
    LET c == getTxnIdByCode(b, w, t, code)
        g == getTransaction(b, c.w, t, c.r)
    IN  IF c.r = 0 THEN Failure(c.w, "invalid_grant")
        ELSE IF IsNull(g.r) THEN Failure(g.w, "invalid_grant")
        ELSE IF ~PkceMatches(Val(g.r).codeChallenge, codeVerifier)
        THEN Failure(g.w, "invalid_grant")
        ELSE [w |-> TokenSingleUse(b, TokenMint(b, g.w, t, Val(g.r), rsAccess, rsRefresh),
                                   c.r, code),
              ok |-> TRUE, error |-> "",
              resp |-> [access_token |-> rsAccess, refresh_token |-> rsRefresh,
                        token_type |-> "bearer", expires_in |-> 3600]]

-----------------------------------------------------------------------------
(* The authorization flow as a state machine.  flows[f] is what the caller  *)
(* of attempt f holds (its challenge, the code it was redirected with) and  *)
(* what the provider answered for it.                                       *)

NoCall == [op |-> "none"]

(* A deployment with provider credentials, not in development mode *)
Hardened == [hasCreds |-> TRUE, isDev |-> FALSE, redirectAllowAll |-> FALSE]

InitCommon ==
    /\ backend \in Backends
    /\ now = 1000
    /\ ticks = 0
    /\ mem = EmptyMem
    /\ sessions = EmptyMap
    /\ recentlyRefreshed = EmptyMap
    /\ ensures = <<>>
    /\ kv = <<>>
    /\ file = Null
    /\ saveTimer = 0
    /\ seq = 0
    /\ flows = <<>>
    /\ grants = <<>>
    /\ others = 0
    /\ calls = 0
    /\ restarts = 0
    /\ written = <<>>
    /\ last = NoCall

Init ==
    /\ InitCommon
    /\ config \in [hasCreds : BOOLEAN, isDev : {FALSE}, redirectAllowAll : {FALSE}]

(* The lookups of the state as it is, without their deleting side effect *)
CodeResolves(code) == getTxnIdByCode(backend, World, now, code).r # 0
TxnResolves(txnId) == ~IsNull(getTransaction(backend, World, now, txnId).r)

Authorize(input) ==
    /\ Len(flows) < MaxFlows
    /\ LET res == handleAuthorize(backend, World, now, config, input,
                                  Opaque(seq + 1), Opaque(seq + 2))
       IN  /\ SetWorld(res.w)
           /\ IF res.ok
              THEN /\ seq' = seq + (IF res.to = "client" THEN 2 ELSE 1)
                   /\ flows' = Append(flows,
                          [txnId |-> res.txnId, challenge |-> input.codeChallenge,
                           redirectUri |-> input.redirectUri, state |-> input.state,
                           compositeState |-> res.compositeState,
                           pc |-> IF res.to = "client" THEN "hasCode" ELSE "atProvider",
                           code |-> res.code, answer |-> Null, redeemed |-> FALSE])
              ELSE UNCHANGED <<seq, flows>>
           /\ last' = [op |-> "authorize", ok |-> res.ok, error |-> res.error,
                       input |-> input, code |-> IF res.ok THEN res.code ELSE 0,
                       redirectTo |-> IF res.ok THEN res.redirectTo ELSE NoUri,
                       state |-> IF res.ok THEN res.state ELSE Null]
    /\ UNCHANGED <<backend, sessions, recentlyRefreshed, ensures, calls, restarts, written, now, ticks, file, config, grants, others>>

ProviderCallback(f, answer) ==
    /\ flows[f].pc = "atProvider"
    /\ LET res == handleProviderCallback(backend, World, now, config,
                                         flows[f].compositeState, answer, Opaque(seq + 1))
       IN  /\ SetWorld(res.w)
           /\ IF res.ok
              THEN /\ seq' = seq + 1
                   /\ flows' = [flows EXCEPT ![f].pc = "hasCode", ![f].code = res.code,
                                             ![f].answer = Some(answer)]
              ELSE /\ seq' = seq
                   /\ flows' = [flows EXCEPT ![f].pc = "failed"]
           /\ last' = [op |-> "callback", ok |-> res.ok, error |-> res.error, flow |-> f,
                       fetched |-> res.fetched,
                       code |-> IF res.ok THEN res.code ELSE 0,
                       redirectTo |-> IF res.ok THEN res.redirectTo ELSE NoUri,
                       state |-> IF res.ok THEN res.state ELSE Null]
    /\ UNCHANGED <<backend, sessions, recentlyRefreshed, ensures, calls, restarts, written, now, ticks, file, config, grants, others>>

(* POST /token with grant_type=authorization_code: the caller of attempt f  *)
(* presents the code it holds, also again after it was redeemed.            *)
TokenExchange(f, codeVerifier) ==
    /\ flows[f].code # 0
    /\ LET code == flows[f].code
           res == handleTokenCode(backend, World, now, code, codeVerifier,
                                  Opaque(seq + 1), Opaque(seq + 2))
           txnNow == getTransaction(backend, World, now, flows[f].txnId).r
       IN  /\ SetWorld(res.w)
           /\ seq' = IF res.ok THEN seq + 2 ELSE seq
           /\ flows' = IF res.ok THEN [flows EXCEPT ![f].pc = "done", ![f].redeemed = TRUE]
                       ELSE flows
           /\ last' = [op |-> "token", ok |-> res.ok, error |-> res.error, flow |-> f,
                       at |-> now,
                       codeVerifier |-> codeVerifier,
                       resp |-> IF res.ok THEN Some(res.resp) ELSE Null,
                       replay |-> flows[f].redeemed,
                       live |-> CodeResolves(code) /\ TxnResolves(flows[f].txnId),
                       hadProvider |-> ~IsNull(txnNow) /\ HasProviderTokens(Val(txnNow))]
    /\ UNCHANGED <<backend, sessions, recentlyRefreshed, ensures, calls, restarts, written, now, ticks, file, config, grants, others>>

(* Time passes *)
FlowDelays == {DEFAULT_TXN_TTL_MS \div 2}

Advance(d) ==
    /\ now + d <= MaxNow
    /\ now' = now + d
    /\ ticks' = ticks + 1
    /\ UNCHANGED <<backend, sessions, recentlyRefreshed, ensures, calls, restarts, written, mem, kv, file, saveTimer, seq, config, flows, grants, others, last>>

Tick(d) == ticks < MaxTicks /\ Advance(d)

(* The setInterval sweep of the in-process store *)
Cleanup ==
    /\ mem' = MemCleanup(mem, now)
    /\ mem' # mem
    /\ UNCHANGED <<backend, sessions, recentlyRefreshed, ensures, calls, restarts, written, now, ticks, kv, file, saveTimer, seq, config, flows, grants, others, last>>

SaveTimerFiresKeepsFile ==
    /\ saveTimer # 0
    /\ saveTimer' = 0
    /\ UNCHANGED <<backend, sessions, recentlyRefreshed, ensures, calls, restarts, written, now, ticks, mem, kv, file, seq, config, flows, grants, others, last>>

(* The debounce timer of FileTokenStore fires: saveImmediate().  The 100 ms *)
(* of the debounce are below the resolution of the clock here; SaveSpec     *)
(* follows them.                                                            *)
SaveTimerFires ==
    /\ saveTimer # 0
    /\ file' = Some(FileRecords(mem))
    /\ saveTimer' = 0
    /\ UNCHANGED <<backend, sessions, recentlyRefreshed, ensures, calls, restarts, written, now, ticks, mem, kv, seq, config, flows, grants, others, last>>

(* The requests of a client to /authorize *)
AuthorizeInputs ==
    [codeChallenge : Challenges, codeChallengeMethod : Methods,
     redirectUri : RedirectUris, state : {Some("s1")}]

Next ==
    \/ \E input \in AuthorizeInputs : Authorize(input)
    \/ \E f \in 1..Len(flows), a \in ProviderAnswers : ProviderCallback(f, a)
    \/ \E f \in 1..Len(flows), v \in Verifiers : TokenExchange(f, v)
    \/ \E d \in FlowDelays : Tick(d)
    \/ Cleanup
    \/ SaveTimerFires

Spec == Init /\ [][Next]_vars


-----------------------------------------------------------------------------
(* Properties of the authorization flow (specification Spec) *)

(* A code or Transaction is held by the store: in the in-process maps or    *)
(* under its key of the KV namespace.                                       *)
CodeHeld(code) == MapHas(mem.codes, code) \/ CodeKey(code) \in DOMAIN kv
TxnHeld(txnId) == MapHas(mem.transactions, txnId) \/ TxnKey(txnId) \in DOMAIN kv

LastIsToken == last.op = "token"
LastFlow == flows[last.flow]

(* C1: once handleToken has succeeded for an authorization code, every      *)
(* later handleToken call with that code fails with invalid_grant, and the  *)
(* store holds neither the code nor its Transaction any more.               *)
C1_SingleUseCode ==
    /\ (LastIsToken /\ last.replay) => (~last.ok /\ last.error = "invalid_grant")
    /\ \A f \in 1..Len(flows) :
          flows[f].redeemed =>
              /\ ~CodeHeld(flows[f].code) /\ ~CodeResolves(flows[f].code)
              /\ ~TxnHeld(flows[f].txnId) /\ ~TxnResolves(flows[f].txnId)

C1_Witness == LastIsToken /\ last.replay /\ backend = "kv"

(* C2: for a code that resolves to a live Transaction, the exchange         *)
(* succeeds exactly when the digest of the verifier equals the challenge    *)
(* the caller registered; any other verifier gets invalid_grant.            *)
C2_PkceIntegrity ==
    (LastIsToken /\ last.live) =>
        /\ last.ok <=> (sha256B64UrlAsync(last.codeVerifier) = LastFlow.challenge)
        /\ ~last.ok => last.error = "invalid_grant"

C2_Witness ==
    /\ LastIsToken /\ last.live /\ ~last.ok
    /\ sha256B64UrlAsync(last.codeVerifier) # LastFlow.challenge

(* C3: authorize, then a provider callback answered with access token AT,   *)
(* a refresh token and expires_in 3600, then the exchange with the matching *)
(* verifier: the response is a bearer pair with expires_in 3600, and        *)
(* getByRsAccess of the returned access token yields a record bound to AT   *)
(* whose refresh token is the returned one.                                 *)
AnsweredWithTokens(f) ==
    /\ ~IsNull(flows[f].answer)
    /\ Val(flows[f].answer).refresh_token # 0
    /\ Val(flows[f].answer).expires_in = 3600

C3_EndToEnd ==
    (/\ LastIsToken /\ last.at = now /\ last.live
     /\ AnsweredWithTokens(last.flow)
     /\ sha256B64UrlAsync(last.codeVerifier) = LastFlow.challenge) =>
        /\ last.ok
        /\ Val(last.resp).token_type = "bearer"
        /\ Val(last.resp).expires_in = 3600
        /\ LET rec == getByRsAccess(backend, World, now, Val(last.resp).access_token).r
           IN  /\ ~IsNull(rec)
               /\ Val(rec).provider.access_token = Val(LastFlow.answer).access_token
               /\ Val(rec).rs_refresh_token = Val(last.resp).refresh_token

C3_Witness ==
    /\ LastIsToken /\ last.at = now /\ last.ok
    /\ AnsweredWithTokens(last.flow)
    /\ ticks > 0

(* C5: the authorization_code grant never returns a token pair for a code   *)
(* whose Transaction carries no provider tokens.                            *)
C5_NoProviderNoTokens == (LastIsToken /\ last.ok) => last.hadProvider


-----------------------------------------------------------------------------
(* oauth/flow.ts: handleToken, refresh_token grant *)

(* What the provider's token endpoint may answer to a refresh_token grant   *)
RefreshAnswers ==
    {[ok |-> FALSE, access_token |-> 0, refresh_token |-> 0, expires_in |-> 0],
     [ok |-> TRUE, access_token |-> 102, refresh_token |-> 0, expires_in |-> 3600],
     [ok |-> TRUE, access_token |-> 102, refresh_token |-> 202, expires_in |-> 0]}

(* now >= (rec.provider.expires_at ?? 0) - 60_000 *)
IsExpiringSoon(t, provider) == t >= provider.expires_at - EXPIRY_BUFFER_MS

(* The grant up to its first suspension: the lookup by refresh token and    *)
(* the decision whether the provider token has to be refreshed first,       *)
(* which is taken only when a provider configuration was passed.            *)
handleTokenRefreshLookup(b, w, t, refreshToken, hasProviderConfig) ==
    LET got == getByRsRefresh(b, w, t, refreshToken)
    IN  IF IsNull(got.r) THEN Failure(got.w, "invalid_grant") @@ [next |-> "failed"]
        ELSE IF ~(IsExpiringSoon(t, Val(got.r).provider) /\ hasProviderConfig)
        THEN [w |-> got.w, ok |-> TRUE, error |-> "", next |-> "update",
              provider |-> Val(got.r).provider]
        ELSE IF Val(got.r).provider.refresh_token = 0
        THEN Failure(got.w, "provider_token_expired") @@ [next |-> "failed"]
        ELSE [w |-> got.w, ok |-> TRUE, error |-> "", next |-> "fetch",
              provider |-> Val(got.r).provider]

(* refreshProviderToken: a non-success status or a body without             *)
(* access_token throws; else the new provider tokens, keeping the old       *)
(* provider refresh token when the provider sent none.                      *)
refreshProviderToken(providerRefreshToken, answer, t) ==
    IF ~answer.ok \/ answer.access_token = 0 THEN Null
    ELSE Some([access_token |-> answer.access_token,
               refresh_token |-> IF answer.refresh_token # 0 THEN answer.refresh_token
                                 ELSE providerRefreshToken,
               expires_at |-> ExpiresAt(t, answer.expires_in)])

(* The rest of the grant: a new RS access token, updateByRsRefresh, and the *)
(* response.  The result of updateByRsRefresh is used for the scope only.   *)
GrantResponse(t, refreshToken, provider, newAccess, updated) ==
    [ok |-> TRUE, error |-> "",
     resp |-> [access_token |-> newAccess, refresh_token |-> refreshToken,
               token_type |-> "bearer",
               expires_in |-> IF provider.expires_at # 0
                              THEN Max(1, (provider.expires_at - t) \div 1000)
                              ELSE 3600]]

handleTokenRefreshFinish(b, w, t, refreshToken, provider, newAccess) ==
    LET updated == updateByRsRefresh(b, w, t, refreshToken, provider, newAccess, {})
    IN  GrantResponse(t, refreshToken, provider, newAccess, updated.r)
            @@ [w |-> updated.w, updated |-> updated.r]

-----------------------------------------------------------------------------
(* Refresh grants against a store that holds the record of one completed    *)
(* exchange (specification GrantSpec).  A grant that has to refresh the     *)
(* provider token is suspended while the provider is called; without that   *)
(* call the in-process and file stores complete it in one turn.             *)

InitialAccess == Opaque(1)
InitialRefresh == Opaque(2)

BystanderAccess == Opaque(3)
BystanderRefresh == Opaque(4)

(* expires_in values the provider may have sent with the initial tokens:    *)
(* one inside the refresh buffer, one outside it.                           *)
InitialExpiresIn == {EXPIRY_BUFFER_MS \div 1000, DEFAULT_EXPIRES_IN_S}

InitialProvider(rt, expires_in) ==
    [access_token |-> 101, refresh_token |-> rt, expires_at |-> ExpiresAt(1000, expires_in)]

(* FileTokenStore serves every operation of the grant from its             *)
(* MemoryTokenStore and only adds persistence, which a running process      *)
(* never reads back: the grants are followed on the other two backends.     *)
GrantBackends == {"memory", "kv"}

GrantInit ==
    /\ backend \in GrantBackends
    /\ config = Hardened
    /\ now = 1000
    /\ ticks = 0
    /\ file = Null
    /\ sessions = EmptyMap
    /\ recentlyRefreshed = EmptyMap
    /\ ensures = <<>>
    /\ seq = 4
    /\ flows = <<>>
    /\ grants = <<>>
    /\ others = 0
    /\ calls = 0
    /\ restarts = 0
    /\ written = <<>>
    /\ last = NoCall
    /\ \E rt \in {0, 201}, e \in InitialExpiresIn :
          LET w0 == [mem |-> EmptyMem, kv |-> <<>>, saveTimer |-> 0]
              w1 == storeRsMapping(backend, w0, 1000, InitialAccess, InitialProvider(rt, e),
                                   InitialRefresh, 0, 0, {}).w
              w2 == storeRsMapping(backend, w1, 1000, BystanderAccess,
                                   InitialProvider(201, DEFAULT_EXPIRES_IN_S),
                                   BystanderRefresh, 0, 0, {}).w
          IN  /\ mem = w2.mem
              /\ kv = w2.kv
              /\ saveTimer = w2.saveTimer

GrantDone(g, res) ==
    /\ last' = [op |-> "grant", ok |-> res.ok, error |-> res.error, at |-> now,
                refreshToken |-> grants'[g].refreshToken,
                nearExpiry |-> grants'[g].nearExpiry,
                hadRefresh |-> grants'[g].hadRefresh,
                fresh |-> grants'[g].fresh,
                resp |-> IF res.ok THEN Some(res.resp) ELSE Null]

(* The completion of a grant whose provider tokens are settled *)
GrantFinish(g, refreshToken, provider, w, rotated, seen, fresh) ==
    LET res == handleTokenRefreshFinish(backend, w, now, refreshToken, provider,
                                        Opaque(seq + 1))
    IN  /\ SetWorld(res.w)
        /\ seq' = seq + 1
        /\ grants' = [i \in 1..Max(g, Len(grants)) |->
                         IF i = g THEN [refreshToken |-> refreshToken, pc |-> "done",
                                        provider |-> Null, rotated |-> rotated,
                                        nearExpiry |-> seen.nearExpiry,
                                        hadRefresh |-> seen.hadRefresh,
                                        fresh |-> fresh]
                         ELSE grants[i]]
        /\ GrantDone(g, res)

(* What the grant finds when it arrives: whether the record's provider     *)
(* access token is inside the expiry buffer, and whether the record holds   *)
(* a provider refresh token.                                                *)
GrantSees(b, w, t, refreshToken) ==
    LET rec == getByRsRefresh(b, w, t, refreshToken).r
    IN  [nearExpiry |-> ~IsNull(rec) /\ IsExpiringSoon(t, Val(rec).provider),
         hadRefresh |-> ~IsNull(rec) /\ Val(rec).provider.refresh_token # 0]

(* POST /token with grant_type=refresh_token arrives; both routes pass the  *)
(* provider configuration they built at start-up.                           *)
GrantStart(refreshToken) ==
    /\ Len(grants) < MaxGrants
    /\ LET g == Len(grants) + 1
           seen == GrantSees(backend, World, now, refreshToken)
           res == handleTokenRefreshLookup(backend, World, now, refreshToken, TRUE)
       IN  CASE res.next = "failed" ->
                   /\ SetWorld(res.w)
                   /\ seq' = seq
                   /\ grants' = Append(grants, [refreshToken |-> refreshToken,
                                                pc |-> "failed", provider |-> Null,
                                                rotated |-> FALSE,
                                                nearExpiry |-> seen.nearExpiry,
                                                hadRefresh |-> seen.hadRefresh,
                                                fresh |-> Null])
                   /\ GrantDone(g, res)
             [] res.next = "fetch" ->
                   /\ SetWorld(res.w)
                   /\ seq' = seq
                   /\ grants' = Append(grants, [refreshToken |-> refreshToken,
                                                pc |-> "fetch", provider |-> Some(res.provider),
                                                rotated |-> FALSE,
                                                nearExpiry |-> seen.nearExpiry,
                                                hadRefresh |-> seen.hadRefresh,
                                                fresh |-> Null])
                   /\ last' = [op |-> "lookup"]
             [] res.next = "update" ->
                   GrantFinish(g, refreshToken, res.provider, res.w, FALSE, seen, Null)
    /\ UNCHANGED <<backend, sessions, recentlyRefreshed, ensures, calls, restarts, written, now, ticks, file, config, flows, others>>

(* The provider answers the refresh of a suspended grant *)
GrantProviderAnswers(g, answer) ==
    /\ grants[g].pc = "fetch"
    /\ LET fresh == refreshProviderToken(Val(grants[g].provider).refresh_token, answer, now)
       IN  IF IsNull(fresh)
           THEN /\ grants' = [grants EXCEPT ![g].pc = "failed", ![g].provider = Null]
                /\ GrantDone(g, [ok |-> FALSE, error |-> "provider_refresh_failed"])
                /\ UNCHANGED <<mem, kv, saveTimer, seq>>
           ELSE GrantFinish(g, grants[g].refreshToken, Val(fresh), World,
                            answer.refresh_token # 0, grants[g], fresh)
    /\ UNCHANGED <<backend, sessions, recentlyRefreshed, ensures, calls, restarts, written, now, ticks, file, config, flows, others>>

(* Another caller completes an authorization_code exchange *)
OtherExchange ==
    /\ others < MaxOthers
    /\ others' = others + 1
    /\ LET res == storeRsMapping(backend, World, now, Opaque(seq + 1),
                                 InitialProvider(201, DEFAULT_EXPIRES_IN_S),
                                 Opaque(seq + 2), 0, 0, {})
       IN  SetWorld(res.w)
    /\ seq' = seq + 2
    /\ last' = [op |-> "other"]
    /\ UNCHANGED <<backend, sessions, recentlyRefreshed, ensures, calls, restarts, written, now, ticks, file, config, flows, grants>>

GrantDelays == {DEFAULT_EXPIRES_IN_S * 1000 - EXPIRY_BUFFER_MS, DEFAULT_RS_TOKEN_TTL_MS}

GrantTick(d) == ticks < MaxGrantTicks /\ Advance(d)

GrantNext ==
    \/ GrantStart(InitialRefresh)
    \/ \E g \in 1..Len(grants), a \in RefreshAnswers : GrantProviderAnswers(g, a)
    \/ OtherExchange
    \/ \E d \in GrantDelays : GrantTick(d)
    \/ Cleanup

GrantSpec == GrantInit /\ [][GrantNext]_vars

-----------------------------------------------------------------------------
(* Properties of the refresh_token grant (specification GrantSpec) *)

(* The last step returned the response of a successful refresh_token grant, *)
(* and no time has passed since.                                            *)
GrantJustAnswered == last.op = "grant" /\ last.ok /\ last.at = now

GrantedAccess == Val(last.resp).access_token
GrantedRefresh == Val(last.resp).refresh_token

(* C4: at the moment a successful refresh_token grant returns, the          *)
(* access_token of its response resolves through getByRsAccess to the       *)
(* RsRecord of the refresh token that was presented.                        *)
C4_GrantedAccessResolves ==
    GrantJustAnswered =>
        LET got == getByRsAccess(backend, World, now, GrantedAccess).r
        IN  /\ ~IsNull(got)
            /\ Val(got).rs_refresh_token = last.refreshToken

(* C7: a successful refresh_token grant returns the presented RS refresh    *)
(* token as refresh_token, and that token still resolves through            *)
(* getByRsRefresh when the response is returned, in runs where the         *)
(* provider never sent a new refresh token of its own.                      *)
C7_RefreshTokenStable ==
    (GrantJustAnswered /\ \A g \in 1..Len(grants) : ~grants[g].rotated) =>
        /\ GrantedRefresh = last.refreshToken
        /\ ~IsNull(getByRsRefresh(backend, World, now, last.refreshToken).r)

(* C26: a refresh_token grant for a record whose provider access token is   *)
(* expired or within 60 seconds of expiry either fails, with                *)
(* provider_token_expired when the record holds no provider refresh token   *)
(* and with provider_refresh_failed otherwise, or returns a token pair      *)
(* whose access token resolves to a record that carries provider tokens     *)
(* this grant obtained from the provider's refresh endpoint.                *)
C26_NoGrantWithStaleProviderTokens ==
    (last.op = "grant" /\ last.at = now /\ last.nearExpiry) =>
        IF last.ok
        THEN /\ ~IsNull(last.fresh)
             /\ LET got == getByRsAccess(backend, World, now, GrantedAccess).r
                IN  /\ ~IsNull(got)
                    /\ Val(got).rs_refresh_token = GrantedRefresh
                    /\ Val(got).provider = Val(last.fresh)
        ELSE last.error = IF last.hadRefresh THEN "provider_refresh_failed"
                          ELSE "provider_token_expired"

-----------------------------------------------------------------------------
(* Direct calls of the TokenStore interface: KV writes that may be          *)
(* rejected, the clock, the sweep, the debounced save and, for the file     *)
(* store, a restart of the process (specification StoreSpec).               *)

NoKey == <<>>

With(f, key, val) == [k \in DOMAIN f \cup {key} |-> IF k = key THEN val ELSE f[k]]
Without(f, keys) == [k \in DOMAIN f \ keys |-> f[k]]

(* The bookkeeping of a written RsRecord: both of its keys expire one RS    *)
(* TTL after the write, and an access token it replaced is forgotten.       *)
WrittenRs(wr, t, rec) ==
    LET ak == AccessKey(rec.rs_access_token)
        rk == RefreshKey(rec.rs_refresh_token)
        stale == IF rk \in DOMAIN wr THEN {wr[rk].sibling} \ {ak} ELSE {}
        d == t + DEFAULT_RS_TOKEN_TTL_MS
    IN  With(With(Without(wr, stale), ak, [deadline |-> d, sibling |-> rk]),
             rk, [deadline |-> d, sibling |-> ak])

(* The bookkeeping after a restart: the keys of the records the load put   *)
(* into the store, each with the expiresAt its record was persisted with.   *)
PersistedExpiresAt(f, rsAccess) ==
    LET recs == Val(f)
        i == CHOOSE j \in 1..Len(recs) : recs[j].rs_access_token = rsAccess
    IN  recs[i].expiresAt

WrittenLoaded(f, m) ==
    LET recOf(k) == IF k[1] = "rs:access" THEN m.heap[MapGet(m.rsAccessMap, k[2])]
                    ELSE m.heap[MapGet(m.rsRefreshMap, k[2])]
    IN  [k \in {AccessKey(a) : a \in MapKeys(m.rsAccessMap)} \cup
               {RefreshKey(r) : r \in MapKeys(m.rsRefreshMap)} |->
            [deadline |-> PersistedExpiresAt(f, recOf(k).rs_access_token),
             sibling |-> IF k[1] = "rs:access" THEN RefreshKey(recOf(k).rs_refresh_token)
                         ELSE AccessKey(recOf(k).rs_access_token)]]

KnownRefresh == {k[2] : k \in {x \in DOMAIN written : x[1] = "rs:refresh"}}
KnownTxn == {k[2] : k \in {x \in DOMAIN written : x[1] = "txn"}}

(* The KV writes of a call that are rejected: none of them, or all *)
KvFails(names) == IF backend = "kv" THEN {{}, names} ELSE {{}}

(* Provider tokens as a caller passes them: with or without expires_at *)
ProviderTokensAt(t, access) ==
    {[access_token |-> access, refresh_token |-> 201,
      expires_at |-> ExpiresAt(t, DEFAULT_EXPIRES_IN_S)],
     [access_token |-> access, refresh_token |-> 201, expires_at |-> 0]}

(* Provider tokens after a refresh at the provider *)
RenewedTokensAt(t) ==
    [access_token |-> 102, refresh_token |-> 201,
     expires_at |-> ExpiresAt(t, DEFAULT_EXPIRES_IN_S)]

(* Whether the store still holds an entry under the key *)
Holds(b, w, t, key) ==
    \/ CASE key[1] = "rs:access" -> MapHas(w.mem.rsAccessMap, key[2])
         [] key[1] = "rs:refresh" -> MapHas(w.mem.rsRefreshMap, key[2])
         [] key[1] = "txn" -> MapHas(w.mem.transactions, key[2])
         [] key[1] = "code" -> MapHas(w.mem.codes, key[2])
    \/ b = "kv" /\ ~IsNull(KvGetJson(w.kv, t, key))

(* The lookup that belongs to a key *)
Lookup(b, w, t, key) ==
    CASE key[1] = "rs:access" -> getByRsAccess(b, w, t, key[2])
      [] key[1] = "rs:refresh" -> getByRsRefresh(b, w, t, key[2])
      [] key[1] = "txn" -> getTransaction(b, w, t, key[2])
      [] key[1] = "code" ->
            LET res == getTxnIdByCode(b, w, t, key[2])
            IN  [w |-> res.w, r |-> IF res.r = 0 THEN Null ELSE Some(res.r),
                 threw |-> res.threw]

(* The access token under which the record of a refresh token is filed      *)
(* before an update (0 when there is no such record)                        *)
PreviousAccess(b, w, t, rsRefresh) ==
    LET existing == KvGetJson(w.kv, t, RefreshKey(rsRefresh))
    IN  IF b = "kv" /\ ~IsNull(existing) THEN Val(existing).rs_access_token
        ELSE IF MapHas(w.mem.rsRefreshMap, rsRefresh)
        THEN w.mem.heap[MapGet(w.mem.rsRefreshMap, rsRefresh)].rs_access_token
        ELSE 0

StoreInit ==
    /\ InitCommon
    /\ config = Hardened

(* store.storeRsMapping(rsAccess, provider, rsRefresh?) *)
StoreCall(rsRefresh, provider, fails) ==
    /\ calls < MaxCalls
    /\ LET rsAccess == Opaque(seq + 1)
           res == storeRsMapping(backend, World, now, rsAccess, provider, rsRefresh,
                                 Opaque(seq + 2), Opaque(seq + 3), fails)
       IN  /\ SetWorld(res.w)
           /\ written' = WrittenRs(written, now, res.r)
           /\ last' = [op |-> "storeRsMapping", at |-> now, rsAccess |-> rsAccess,
                       provider |-> provider, fails |-> fails,
                       rsRefresh |-> rsRefresh,
                       previous |-> PreviousAccess(backend, World, now, rsRefresh),
                       r |-> Some(res.r), threw |-> res.threw]
    /\ seq' = seq + 3
    /\ calls' = calls + 1
    /\ UNCHANGED <<backend, sessions, recentlyRefreshed, ensures, restarts, now, ticks, file, config, flows, grants, others>>

(* store.updateByRsRefresh(rsRefresh, provider, maybeNewRsAccess?) *)
UpdateCall(rsRefresh, provider, rotate, fails) ==
    /\ calls < MaxCalls
    /\ LET maybeNewRsAccess == IF rotate THEN Opaque(seq + 1) ELSE 0
           res == updateByRsRefresh(backend, World, now, rsRefresh, provider,
                                    maybeNewRsAccess, fails)
       IN  /\ SetWorld(res.w)
           /\ written' = IF IsNull(res.r) THEN written
                         ELSE WrittenRs(written, now, Val(res.r))
           /\ last' = [op |-> "updateByRsRefresh", at |-> now, rsRefresh |-> rsRefresh,
                       provider |-> provider, newAccess |-> maybeNewRsAccess,
                       previous |-> PreviousAccess(backend, World, now, rsRefresh),
                       fails |-> fails, r |-> res.r, threw |-> res.threw]
    /\ seq' = seq + 1
    /\ calls' = calls + 1
    /\ UNCHANGED <<backend, sessions, recentlyRefreshed, ensures, restarts, now, ticks, file, config, flows, grants, others>>

(* store.saveTransaction(txnId, txn) *)
SaveTxnCall(fails) ==
    /\ calls < MaxCalls
    /\ LET txnId == Opaque(seq + 1)
           txn == [codeChallenge |-> 11, state |-> Some("s1"), createdAt |-> now,
                   provider |-> Null]
           res == saveTransaction(backend, World, now, txnId, txn, fails)
       IN  /\ SetWorld(res.w)
           /\ written' = With(written, TxnKey(txnId),
                              [deadline |-> now + DEFAULT_TXN_TTL_MS, sibling |-> NoKey])
           /\ last' = [op |-> "saveTransaction", at |-> now, key |-> txnId,
                       fails |-> fails, threw |-> res.threw]
    /\ seq' = seq + 1
    /\ calls' = calls + 1
    /\ UNCHANGED <<backend, sessions, recentlyRefreshed, ensures, restarts, now, ticks, file, config, flows, grants, others>>

(* store.saveCode(code, txnId) *)
SaveCodeCall(txnId, fails) ==
    /\ calls < MaxCalls
    /\ LET code == Opaque(seq + 1)
           res == saveCode(backend, World, now, code, txnId, fails)
       IN  /\ SetWorld(res.w)
           /\ written' = With(written, CodeKey(code),
                              [deadline |-> now + DEFAULT_CODE_TTL_MS, sibling |-> NoKey])
           /\ last' = [op |-> "saveCode", at |-> now, key |-> code,
                       fails |-> fails, threw |-> res.threw]
    /\ seq' = seq + 1
    /\ calls' = calls + 1
    /\ UNCHANGED <<backend, sessions, recentlyRefreshed, ensures, restarts, now, ticks, file, config, flows, grants, others>>

(* store.getByRsAccess / getByRsRefresh / getTransaction / getTxnIdByCode *)
LookupCall(key) ==
    /\ LET res == Lookup(backend, World, now, key)
       IN  /\ SetWorld(res.w)
           /\ last' = [op |-> "lookup", at |-> now]
    /\ UNCHANGED <<backend, sessions, recentlyRefreshed, ensures, calls, restarts, written, now, ticks, file, seq, config,
                   flows, grants, others>>

(* The process of a file-backed server stops and starts again: a new        *)
(* FileTokenStore whose constructor runs load(); a pending debounce timer   *)
(* is lost with the old process.                                            *)
Restart ==
    /\ backend = "file"
    /\ restarts < MaxRestarts
    /\ restarts' = restarts + 1
    /\ mem' = FileLoad(file, now)
    /\ saveTimer' = 0
    /\ written' = WrittenLoaded(file, mem')
    /\ last' = [op |-> "restart", at |-> now]
    /\ UNCHANGED <<backend, sessions, recentlyRefreshed, ensures, calls, now, ticks, kv, file, seq, config, flows, grants, others>>

(* The provider token's lifetime (the transaction and code TTL has then     *)
(* elapsed as well) and the RS record TTL                                   *)
StoreDelays == {DEFAULT_EXPIRES_IN_S * 1000, DEFAULT_RS_TOKEN_TTL_MS}

StoreTick(d) == ticks < MaxStoreTicks /\ Advance(d)

StoreNext ==
    \/ \E r \in {0, Opaque(seq + 2)}, p \in ProviderTokensAt(now, 101),
          f \in KvFails({"putAccess", "putRefresh"}) : StoreCall(r, p, f)
    \/ \E r \in KnownRefresh, p \in {RenewedTokensAt(now)}, rotate \in BOOLEAN,
          f \in KvFails({"delAccess", "putAccess", "putRefresh"}) : UpdateCall(r, p, rotate, f)
    \/ \E f \in KvFails({"putTxn"}) : SaveTxnCall(f)
    \/ \E txnId \in KnownTxn, f \in KvFails({"putCode"}) : SaveCodeCall(txnId, f)
    \/ \E key \in DOMAIN written : LookupCall(key)
    \/ \E d \in StoreDelays : StoreTick(d)
    \/ Cleanup
    \/ SaveTimerFires
    \/ Restart

StoreSpec == StoreInit /\ [][StoreNext]_vars

-----------------------------------------------------------------------------
(* Properties of the TokenStore backends (specification StoreSpec) *)

RsKey(key) == key[1] \in {"rs:access", "rs:refresh"}

(* The record a lookup by access or refresh token returns now, or Null *)
ByAccess(rsAccess) == getByRsAccess(backend, World, now, rsAccess).r
ByRefresh(rsRefresh) == getByRsRefresh(backend, World, now, rsRefresh).r

Carries(got, rsRefresh, provider) ==
    /\ ~IsNull(got)
    /\ Val(got).rs_refresh_token = rsRefresh
    /\ Val(got).provider = provider

(* updateByRsRefresh has just returned a record whose access token it       *)
(* replaced by a different one.                                             *)
JustRotated ==
    /\ last.op = "updateByRsRefresh"
    /\ last.at = now
    /\ ~IsNull(last.r)
    /\ last.newAccess # 0
    /\ last.previous # 0
    /\ last.previous # last.newAccess

(* C6: after updateByRsRefresh(r, p, newAccess) returned a record with a    *)
(* new access token, on each backend: the previous access token does not    *)
(* resolve, the new one does, and the records found by the new access token *)
(* and by r both carry refresh token r and provider tokens p.               *)
C6_RotationConsistent ==
    JustRotated =>
        /\ IsNull(ByAccess(last.previous))
        /\ Carries(ByAccess(last.newAccess), last.rsRefresh, last.provider)
        /\ Carries(ByRefresh(last.rsRefresh), last.rsRefresh, last.provider)

(* C8: on every backend a Transaction, Code or RsRecord looked up once its  *)
(* TTL has elapsed is not found, is no longer held after that lookup, and   *)
(* for an RsRecord the lookup by the sibling token that follows is not      *)
(* found either.                                                            *)
C8_ExpiredNotFound ==
    \A key \in DOMAIN written :
        now >= written[key].deadline =>
            LET res == Lookup(backend, World, now, key)
            IN  /\ IsNull(res.r)
                /\ ~Holds(backend, res.w, now, key)
                /\ RsKey(key) =>
                      IsNull(Lookup(backend, res.w, now, written[key].sibling).r)

(* A held RsRecord is returned by the lookup of each of its keys as long as *)
(* the server-side TTL of its last write has not elapsed.                   *)
UnexpiredIsReturned ==
    \A key \in DOMAIN written :
        (RsKey(key) /\ Holds(backend, World, now, key) /\ now < written[key].deadline)
            => ~IsNull(Lookup(backend, World, now, key).r)

PersistedRecords == IF IsNull(file) THEN <<>> ELSE Val(file)

JustRestarted == last.op = "restart" /\ last.at = now

(* C9: the lookups stop returning an RsRecord by its server-side TTL alone, *)
(* never by the provider token's expires_at: a held record whose TTL has    *)
(* not elapsed is returned, and after the file store has been reloaded      *)
(* every persisted record whose TTL has not elapsed is returned.            *)
C9_TtlOnlyAlsoAfterReload ==
    /\ UnexpiredIsReturned
    /\ JustRestarted =>
          \A i \in 1..Len(PersistedRecords) :
              now < PersistedRecords[i].expiresAt =>
                  /\ ~IsNull(ByAccess(PersistedRecords[i].rs_access_token))
                  /\ ~IsNull(ByRefresh(PersistedRecords[i].rs_refresh_token))

(* storeRsMapping has just returned on a KV namespace that has rejected     *)
(* every write so far.                                                      *)
StoredWhileKvFails ==
    /\ backend = "kv"
    /\ last.op = "storeRsMapping"
    /\ last.at = now
    /\ last.fails = {"putAccess", "putRefresh"}
    /\ DOMAIN kv = {}

(* C10: when every KV write fails, KvTokenStore.storeRsMapping returns a    *)
(* record for the given access token and provider tokens without raising,   *)
(* and getByRsAccess then returns the fallback's record of that token.      *)
C10_FallbackServesWhenKvFails ==
    StoredWhileKvFails =>
        /\ ~last.threw
        /\ Val(last.r).rs_access_token = last.rsAccess
        /\ Val(last.r).rs_refresh_token # 0
        /\ Val(last.r).provider = last.provider
        /\ ~IsNull(ByAccess(last.rsAccess))
        /\ Val(ByAccess(last.rsAccess)).rs_access_token = last.rsAccess
        /\ Val(ByAccess(last.rsAccess)).provider = last.provider

C10_Witness == StoredWhileKvFails /\ ~IsNull(ByAccess(last.rsAccess))

-----------------------------------------------------------------------------
(* The distributed backend under failure: KvTokenStore and KvSessionStore   *)
(* of one process, each over its in-process fallback, with KV puts and      *)
(* deletes that may be rejected, and a second instance that writes the      *)
(* shared KV namespace (specification KvSpec).                              *)

KnownCode == {k[2] : k \in {x \in DOMAIN written : x[1] = "code"}}

SessionIds == {1, 2}

Sessions == [sessions |-> sessions, kv |-> kv]

(* Provider tokens as the token exchange passes them to storeRsMapping *)
IssuedTokensAt(t) ==
    [access_token |-> 101, refresh_token |-> 201,
     expires_at |-> ExpiresAt(t, DEFAULT_EXPIRES_IN_S)]

(* The process has one authorization attempt under way: its Transaction    *)
(* was saved while the KV namespace was healthy.                            *)
PendingTxnId == Opaque(1)
PendingTxn ==
    [codeChallenge |-> 11, state |-> Some("s1"), createdAt |-> 1000, provider |-> Null]

KvInit ==
    /\ backend = "kv"
    /\ config = Hardened
    /\ now = 1000
    /\ ticks = 0
    /\ file = Null
    /\ sessions = EmptyMap
    /\ recentlyRefreshed = EmptyMap
    /\ ensures = <<>>
    /\ seq = 1
    /\ flows = <<>>
    /\ grants = <<>>
    /\ others = 0
    /\ calls = 0
    /\ restarts = 0
    /\ written = With(<<>>, TxnKey(PendingTxnId),
                      [deadline |-> 1000 + DEFAULT_TXN_TTL_MS, sibling |-> NoKey])
    /\ last = NoCall
    /\ LET w0 == [mem |-> EmptyMem, kv |-> <<>>, saveTimer |-> 0]
           w1 == saveTransaction("kv", w0, 1000, PendingTxnId, PendingTxn, {}).w
       IN  /\ mem = w1.mem
           /\ kv = w1.kv
           /\ saveTimer = w1.saveTimer

(* store.deleteTransaction(txnId) *)
DeleteTxnCall(txnId, fails) ==
    /\ calls < MaxCalls
    /\ LET res == deleteTransaction(backend, World, txnId, fails)
       IN  /\ SetWorld(res.w)
           /\ written' = IF res.threw THEN written ELSE Without(written, {TxnKey(txnId)})
           /\ last' = [op |-> "deleteTransaction", at |-> now, key |-> txnId,
                       fails |-> fails, threw |-> res.threw]
    /\ calls' = calls + 1
    /\ UNCHANGED <<backend, sessions, recentlyRefreshed, ensures, restarts, now, ticks, file, seq, config, flows, grants,
                   others>>

(* store.deleteCode(code) *)
DeleteCodeCall(code, fails) ==
    /\ calls < MaxCalls
    /\ LET res == deleteCode(backend, World, code, fails)
       IN  /\ SetWorld(res.w)
           /\ written' = IF res.threw THEN written ELSE Without(written, {CodeKey(code)})
           /\ last' = [op |-> "deleteCode", at |-> now, key |-> code,
                       fails |-> fails, threw |-> res.threw]
    /\ calls' = calls + 1
    /\ UNCHANGED <<backend, sessions, recentlyRefreshed, ensures, restarts, now, ticks, file, seq, config, flows, grants,
                   others>>

(* A call of the session store has returned or thrown *)
SessionDone(op, sessionId, fails, res) ==
    /\ sessions' = res.ss.sessions
    /\ kv' = res.ss.kv
    /\ last' = [op |-> op, at |-> now, key |-> sessionId, fails |-> fails,
                threw |-> res.threw]
    /\ calls' = calls + 1
    /\ UNCHANGED <<backend, recentlyRefreshed, ensures, mem, saveTimer, restarts, written, now,
                   ticks, file, seq, config,
                   flows, grants, others>>

(* sessionStore.ensure(sessionId) *)
SessionEnsureCall(sessionId, fails) ==
    /\ calls < MaxCalls
    /\ SessionDone("ensure", sessionId, fails,
                   KvSessionEnsure(Sessions, now, sessionId, fails))

(* sessionStore.put(sessionId, value) *)
SessionPutCall(sessionId, fails) ==
    /\ calls < MaxCalls
    /\ SessionDone("put", sessionId, fails,
                   KvSessionPut(Sessions, now, sessionId, [created_at |-> now], fails))

(* sessionStore.delete(sessionId) *)
SessionDeleteCall(sessionId, fails) ==
    /\ calls < MaxCalls
    /\ SessionDone("delete", sessionId, fails, KvSessionDelete(Sessions, sessionId, fails))

(* Another instance, with a fallback of its own, stores an RS mapping: only *)
(* the shared KV namespace of this process changes.                         *)
OtherInstanceStores(provider) ==
    /\ others < MaxOthers
    /\ LET w0 == [mem |-> EmptyMem, kv |-> kv, saveTimer |-> 0]
           res == KvStoreRsMapping(w0, now, Opaque(seq + 1), provider, 0,
                                   Opaque(seq + 2), Opaque(seq + 3), {})
       IN  /\ kv' = res.w.kv
           /\ written' = WrittenRs(written, now, res.r)
           /\ last' = [op |-> "otherInstance", at |-> now]
    /\ seq' = seq + 3
    /\ others' = others + 1
    /\ UNCHANGED <<backend, sessions, recentlyRefreshed, ensures, mem, saveTimer, calls, restarts, now, ticks, file, config,
                   flows, grants>>

KvNext ==
    \/ \E r \in {0, Opaque(seq + 2)} \cup KnownRefresh, p \in {IssuedTokensAt(now)},
          f \in KvFails({"putAccess", "putRefresh"}) : StoreCall(r, p, f)
    \/ \E r \in KnownRefresh, p \in {RenewedTokensAt(now)}, rotate \in BOOLEAN,
          f \in KvFails({"delAccess", "putAccess", "putRefresh"}) : UpdateCall(r, p, rotate, f)
    \/ \E f \in KvFails({"putTxn"}) : SaveTxnCall(f)
    \/ \E txnId \in KnownTxn, f \in KvFails({"putCode"}) : SaveCodeCall(txnId, f)
    \/ \E txnId \in KnownTxn, f \in KvFails({"delTxn"}) : DeleteTxnCall(txnId, f)
    \/ \E code \in KnownCode, f \in KvFails({"delCode"}) : DeleteCodeCall(code, f)
    \/ \E id \in SessionIds, f \in KvFails({"putSession"}) : SessionEnsureCall(id, f)
    \/ \E id \in SessionIds, f \in KvFails({"putSession"}) : SessionPutCall(id, f)
    \/ \E id \in SessionIds, f \in KvFails({"delSession"}) : SessionDeleteCall(id, f)
    \/ OtherInstanceStores(IssuedTokensAt(now))

KvSpec == KvInit /\ [][KvNext]_vars

(* The in-process fallback holds the effect of the last mutating call *)
FallbackReflects ==
    CASE last.op = "storeRsMapping" ->
            /\ MapHas(mem.rsAccessMap, last.rsAccess)
            /\ mem.heap[MapGet(mem.rsAccessMap, last.rsAccess)].provider = last.provider
      [] last.op = "updateByRsRefresh" ->
            ~IsNull(last.r) =>
                /\ MapHas(mem.rsRefreshMap, last.rsRefresh)
                /\ mem.heap[MapGet(mem.rsRefreshMap, last.rsRefresh)].provider = last.provider
      [] last.op = "saveTransaction" -> MapHas(mem.transactions, last.key)
      [] last.op = "deleteTransaction" -> ~MapHas(mem.transactions, last.key)
      [] last.op = "saveCode" -> MapHas(mem.codes, last.key)
      [] last.op = "deleteCode" -> ~MapHas(mem.codes, last.key)
      [] last.op \in {"ensure", "put"} -> MapHas(sessions, last.key)
      [] last.op = "delete" -> ~MapHas(sessions, last.key)

MutatingOps ==
    {"storeRsMapping", "updateByRsRefresh", "saveTransaction", "deleteTransaction",
     "saveCode", "deleteCode", "ensure", "put", "delete"}

(* C11: every mutating operation of KvTokenStore and KvSessionStore whose   *)
(* KV put or delete is rejected still returns normally, and the in-process  *)
(* fallback then reflects the mutation.                                     *)
C11_FallbackFirstNeverRaises ==
    (last.op \in MutatingOps /\ last.at = now /\ last.fails # {}) =>
        /\ ~last.threw
        /\ FallbackReflects

(* updateByRsRefresh(r, p, a) has just returned a record *)
JustUpdatedWithAccess ==
    /\ last.op = "updateByRsRefresh"
    /\ last.at = now
    /\ ~IsNull(last.r)
    /\ last.newAccess # 0

(* C12: in one process using KvTokenStore, after updateByRsRefresh(r, p, a) *)
(* has returned a record, getByRsRefresh(r) and getByRsAccess(a) return a   *)
(* record with provider tokens p, whether or not the KV writes of the       *)
(* update were rejected and whichever instance first wrote the record.      *)
C12_NoWriteLost ==
    JustUpdatedWithAccess =>
        /\ ~IsNull(ByRefresh(last.rsRefresh))
        /\ Val(ByRefresh(last.rsRefresh)).provider = last.provider
        /\ ~IsNull(ByAccess(last.newAccess))
        /\ Val(ByAccess(last.newAccess)).provider = last.provider

(* Every RS access token handed out so far *)
IssuedTokens == 1..seq

(* storeRsMapping(a, p, r) has just returned, r mapping to a record before *)
JustRestored ==
    /\ last.op = "storeRsMapping"
    /\ last.at = now
    /\ last.rsRefresh # 0
    /\ last.previous # 0
    /\ last.previous # last.rsAccess

(* C13: all RS access tokens that resolve to a record with refresh token r  *)
(* resolve to one and the same record value; and storeRsMapping with an     *)
(* rsRefresh that already maps to a record replaces that record's access    *)
(* token and provider tokens, keeps r, and the replaced access token stops  *)
(* resolving.                                                               *)
C13_OneRecordPerRefresh ==
    /\ \A a1, a2 \in IssuedTokens :
          (/\ ~IsNull(ByAccess(a1))
           /\ ~IsNull(ByAccess(a2))
           /\ Val(ByAccess(a1)).rs_refresh_token = Val(ByAccess(a2)).rs_refresh_token)
              => Val(ByAccess(a1)) = Val(ByAccess(a2))
    /\ JustRestored =>
          /\ IsNull(ByAccess(last.previous))
          /\ Carries(ByAccess(last.rsAccess), last.rsRefresh, last.provider)
          /\ Carries(ByRefresh(last.rsRefresh), last.rsRefresh, last.provider)
          /\ Val(ByRefresh(last.rsRefresh)).rs_access_token = last.rsAccess

-----------------------------------------------------------------------------
(* Properties of the in-process collections *)

(* Entry i of one index refers to a record that the other index holds, as   *)
(* the same object, under the record's own token.                           *)
InBothIndices(a) ==
    /\ MapHas(mem.rsAccessMap, mem.heap[a].rs_access_token)
    /\ MapGet(mem.rsAccessMap, mem.heap[a].rs_access_token) = a
    /\ MapHas(mem.rsRefreshMap, mem.heap[a].rs_refresh_token)
    /\ MapGet(mem.rsRefreshMap, mem.heap[a].rs_refresh_token) = a

(* C14: in every reachable state of MemoryTokenStore a record is in the     *)
(* refresh-token index under its rs_refresh_token exactly when the same     *)
(* record is in the access-token index under its rs_access_token.           *)
C14_IndicesAgree ==
    /\ \A i \in 1..Len(mem.rsAccessMap) : InBothIndices(mem.rsAccessMap[i].v)
    /\ \A i \in 1..Len(mem.rsRefreshMap) : InBothIndices(mem.rsRefreshMap[i].v)

(* C15: after any sequence of store operations each in-process collection   *)
(* stays at or below its maximum size: the RS access-token index and the    *)
(* RS refresh-token index (MAX_RS_RECORDS), the transactions                *)
(* (MAX_TRANSACTIONS) and the sessions (MAX_SESSIONS).                      *)
C15_CollectionsBounded ==
    /\ MapSize(mem.rsAccessMap) <= MAX_RS_RECORDS
    /\ MapSize(mem.rsRefreshMap) <= MAX_RS_RECORDS
    /\ MapSize(mem.transactions) <= MAX_TRANSACTIONS
    /\ MapSize(sessions) <= MAX_SESSIONS

(* The records of the access-token index, named by their refresh tokens,    *)
(* and the place of each in the order evictOldest removes them in.          *)
Evictable(m) ==
    {m.heap[m.rsAccessMap[i].v].rs_refresh_token : i \in 1..Len(m.rsAccessMap)}

EvictionRank(m, r) ==
    LET i == CHOOSE j \in 1..Len(m.rsAccessMap) :
                 m.heap[m.rsAccessMap[j].v].rs_refresh_token = r
    IN  EvictRank(AccessCreated(m), i)

SameEvictionOrder(m1, m2) ==
    \A x, y \in Evictable(m1) \cap Evictable(m2) :
        EvictionRank(m1, x) < EvictionRank(m1, y)
            <=> EvictionRank(m2, x) < EvictionRank(m2, y)

(* What a storeRsMapping of a new record removed from the access-token      *)
(* index was created no later than anything it kept.                        *)
EvictedAreOldest(m1, m2) ==
    \A x \in Evictable(m1) \ Evictable(m2), y \in Evictable(m1) \cap Evictable(m2) :
        EvictionRank(m1, x) < EvictionRank(m1, y)

(* C16: an eviction by storeRsMapping removes the entries created earliest  *)
(* among those present, and reading an entry or updating it in place (a     *)
(* refresh_token grant: getByRsRefresh, updateByRsRefresh) never changes    *)
(* the order in which the entries are evicted.                              *)
C16_EvictionByCreation ==
    [][/\ others' # others => EvictedAreOldest(mem, mem')
       /\ grants' # grants => SameEvictionOrder(mem, mem')]_vars

-----------------------------------------------------------------------------
(* Properties of handleAuthorize and handleProviderCallback (Spec) *)

BadChallenge(input) == input.codeChallenge = 0 \/ input.codeChallengeMethod # "S256"

StoreUnchanged == mem' = mem /\ kv' = kv /\ file' = file /\ saveTimer' = saveTimer

(* C17: handleAuthorize called with a missing code challenge, or with a     *)
(* challenge method other than S256, fails with invalid_request and leaves  *)
(* the store unchanged: no Transaction and no Code is created.              *)
C17_BadChallengeRejected ==
    [][\A input \in AuthorizeInputs :
          (BadChallenge(input) /\ Authorize(input)) =>
              /\ ~last'.ok
              /\ last'.error = "invalid_request"
              /\ StoreUnchanged
              /\ flows' = flows]_vars

C17_Witness ==
    /\ last.op = "authorize"
    /\ last.input.redirectUri # NoUri
    /\ BadChallenge(last.input)
    /\ last.error = "invalid_request"
    /\ mem = EmptyMem

-----------------------------------------------------------------------------
(* The redirects of handleAuthorize and handleProviderCallback under every  *)
(* deployment configuration and every kind of caller-supplied redirect URI  *)
(* (specification RedirectSpec).                                            *)

(* input.state: absent, the empty string, or a value *)
CallerStates == {Null, Some(""), Some("s1")}

CallerRedirectUris ==
    {NoUri, AppUri, AppUriWithQuery, LoopbackUri, ForeignUri, MalformedUri, DefaultRedirectUri}

RedirectInputs ==
    [codeChallenge : {11}, codeChallengeMethod : {"S256"},
     redirectUri : CallerRedirectUris, state : CallerStates]

RedirectInit ==
    /\ InitCommon
    /\ config \in [hasCreds : BOOLEAN, isDev : BOOLEAN, redirectAllowAll : BOOLEAN]

RedirectNext ==
    \/ \E input \in RedirectInputs : Authorize(input)
    \/ \E f \in 1..Len(flows), a \in ProviderAnswers : ProviderCallback(f, a)

RedirectSpec == RedirectInit /\ [][RedirectNext]_vars

(* The codes the store holds, in the in-process map and in the KV namespace *)
StoredCodes(m, k) == MapKeys(m.codes) \cup {x[2] : x \in {y \in DOMAIN k : y[1] = "code"}}

(* C18: when the deployment is not in development mode (isDev false),       *)
(* handleAuthorize never stores a Code itself, whatever provider            *)
(* credentials are configured.                                              *)
C18_SelfIssueOnlyInDev ==
    [][\A input \in RedirectInputs :
          (~config.isDev /\ Authorize(input)) =>
              StoredCodes(mem', kv') = StoredCodes(mem, kv)]_vars

(* handleAuthorize or handleProviderCallback has just answered with a       *)
(* redirect that carries a code, and the redirect URI its caller supplied.  *)
CodeBearingRedirect ==
    /\ last.op \in {"authorize", "callback"}
    /\ last.ok
    /\ last.code # 0

SuppliedRedirectUri ==
    IF last.op = "authorize" THEN last.input.redirectUri
    ELSE flows[last.flow].redirectUri

LoopbackHosts == {"localhost", "127.0.0.1", "::1"}

DevLoopbackOrAllowAll(uri) ==
    \/ config.isDev /\ uri.hostname \in LoopbackHosts
    \/ config.redirectAllowAll

WithProviderTokens(m, k) ==
    {m.transactions[i].k : i \in {j \in 1..Len(m.transactions) :
                                     ~IsNull(m.transactions[j].v.value.provider)}}
    \cup {x[2] : x \in {y \in DOMAIN k : y[1] = "txn" /\ ~IsNull(k[y].val.provider)}}

(* C20: a handleProviderCallback call that fails with unknown_txn,          *)
(* provider_token_error or provider_no_token issues no Code and attaches no *)
(* provider tokens to any Transaction, and in the unknown_txn case the      *)
(* provider's token endpoint has not been called.                           *)
C20_FailedCallbackIssuesNothing ==
    [][\A f \in 1..Len(flows), a \in ProviderAnswers :
          (/\ ProviderCallback(f, a)
           /\ ~last'.ok
           /\ last'.error \in {"unknown_txn", "provider_token_error", "provider_no_token"}) =>
              /\ StoredCodes(mem', kv') \subseteq StoredCodes(mem, kv)
              /\ WithProviderTokens(mem', kv') \subseteq WithProviderTokens(mem, kv)
              /\ last'.error = "unknown_txn" => ~last'.fetched]_vars

C20_Witness ==
    /\ last.op = "callback"
    /\ ~last.ok
    /\ last.error = "unknown_txn"
    /\ ~last.fetched
    /\ StoredCodes(mem, kv) = {}

(* The provider tokens handleProviderCallback builds from a provider answer *)
TokensOf(answer, t) ==
    [access_token |-> answer.access_token, refresh_token |-> answer.refresh_token,
     expires_at |-> ExpiresAt(t, answer.expires_in)]

(* C21: a successful handleProviderCallback for the composite state that    *)
(* handleAuthorize produced attaches the provider tokens to the Transaction *)
(* handleAuthorize created, stores a fresh Code that maps to that txnId,    *)
(* and returns a redirect carrying that Code and exactly the state value    *)
(* the caller passed to handleAuthorize.                                    *)
C21_CallbackCompletesTransaction ==
    [][\A f \in 1..Len(flows), a \in ProviderAnswers :
          (ProviderCallback(f, a) /\ last'.ok) =>
              LET txn == getTransaction(backend, World', now, flows[f].txnId).r
              IN  /\ ~IsNull(txn)
                  /\ Val(txn).provider = Some(TokensOf(a, now))
                  /\ last'.code \notin StoredCodes(mem, kv)
                  /\ getTxnIdByCode(backend, World', now, last'.code).r = flows[f].txnId
                  /\ last'.state = flows[f].state]_vars

-----------------------------------------------------------------------------
(* oauth/refresh.ts: the proactive refresh *)

REFRESH_COOLDOWN_MS == 30000
RECENT_CLEANUP_SIZE == 1000

(* shouldSkipRefresh(rsToken) over the recentlyRefreshed map rr *)
shouldSkipRefresh(rr, t, rsToken) ==
    MapHas(rr, rsToken) /\ MapGet(rr, rsToken) # 0 /\ t - MapGet(rr, rsToken) < REFRESH_COOLDOWN_MS

(* A markRefreshed that leaves the map alone *)
markRefreshedNever(rr, t, rsToken) == rr

(* markRefreshed(rsToken), with its sweep of old entries *)
markRefreshed(rr, t, rsToken) ==
    LET rr1 == MapSet(rr, rsToken, t)
    IN  IF MapSize(rr1) > RECENT_CLEANUP_SIZE
        THEN SelectSeq(rr1, LAMBDA e : ~(t - e.v > REFRESH_COOLDOWN_MS))
        ELSE rr1

(* isTokenExpiredOrExpiring(expiresAt) *)
isTokenExpiredOrExpiring(t, expiresAt) ==
    IF expiresAt = 0 THEN FALSE ELSE t >= expiresAt - EXPIRY_BUFFER_MS

(* What the provider's token endpoint may do with a proactive refresh: the  *)
(* fetch rejects (threw), a non-success status, a body without access_token,*)
(* new tokens that keep or replace the provider refresh token, and new      *)
(* tokens that are themselves inside the expiry buffer.                     *)
ProactiveAnswers ==
    {[threw |-> TRUE, ok |-> FALSE, access_token |-> 0, refresh_token |-> 0, expires_in |-> 0],
     [threw |-> FALSE, ok |-> FALSE, access_token |-> 0, refresh_token |-> 0, expires_in |-> 0],
     [threw |-> FALSE, ok |-> TRUE, access_token |-> 0, refresh_token |-> 0, expires_in |-> 0],
     [threw |-> FALSE, ok |-> TRUE, access_token |-> 102, refresh_token |-> 0, expires_in |-> 0],
     [threw |-> FALSE, ok |-> TRUE, access_token |-> 102, refresh_token |-> 0, expires_in |-> 30],
     [threw |-> FALSE, ok |-> TRUE, access_token |-> 102, refresh_token |-> 202,
      expires_in |-> 3600]}

(* refreshProviderToken of refresh.ts: a RefreshResult instead of a throw   *)
RefreshResult(refreshToken, answer, t) ==
    IF answer.threw \/ ~answer.ok \/ answer.access_token = 0
    THEN [success |-> FALSE, tokens |-> Null]
    ELSE [success |-> TRUE,
          tokens |-> Some([access_token |-> answer.access_token,
                           refresh_token |-> IF answer.refresh_token # 0
                                             THEN answer.refresh_token ELSE refreshToken,
                           expires_at |-> ExpiresAt(t, answer.expires_in)])]

(* What ensureFreshToken returns *)
Fresh(w, rr, accessToken, wasRefreshed) ==
    [w |-> w, rr |-> rr, accessToken |-> accessToken, wasRefreshed |-> wasRefreshed]

(* ensureFreshToken up to its call of the provider: next is "done" with the *)
(* result, or "fetch" with the record the refresh is made for.              *)
ensureFreshTokenLookup(b, w, rr, t, rsAccessToken, hasProviderConfig) ==
    LET got == getByRsAccess(b, w, t, rsAccessToken)
        record == Val(got.r)
        stale == Fresh(got.w, rr, record.provider.access_token, FALSE)
                     @@ [next |-> "done", record |-> Null]
    IN  IF IsNull(got.r) \/ record.provider.access_token = 0
        THEN Fresh(got.w, rr, 0, FALSE) @@ [next |-> "done", record |-> Null]
        ELSE IF ~isTokenExpiredOrExpiring(t, record.provider.expires_at) THEN stale
        ELSE IF shouldSkipRefresh(rr, t, rsAccessToken) THEN stale
        ELSE IF record.provider.refresh_token = 0 THEN stale
        ELSE IF ~hasProviderConfig THEN stale
        ELSE Fresh(got.w, rr, 0, FALSE) @@ [next |-> "fetch", record |-> got.r]

(* An ensureFreshToken that marks the cooldown after a failed refresh too *)
ensureFreshTokenFinishMarksFailure(b, w, rr, t, rsAccessToken, record, sent, answer, fails) ==
    LET result == RefreshResult(sent, answer, t)
        tokens == Val(result.tokens)
        providerRefreshRotated == tokens.refresh_token # record.provider.refresh_token
        newRsAccess == IF providerRefreshRotated THEN 0 ELSE record.rs_access_token
        upd == updateByRsRefresh(b, w, t, record.rs_refresh_token, tokens, newRsAccess, fails)
    IN  IF ~result.success \/ IsNull(result.tokens)
        THEN Fresh(w, markRefreshed(rr, t, rsAccessToken), record.provider.access_token, FALSE)
        ELSE IF upd.threw THEN Fresh(upd.w, rr, tokens.access_token, TRUE)
        ELSE Fresh(upd.w, markRefreshed(rr, t, rsAccessToken), tokens.access_token, TRUE)

(* ensureFreshToken from the provider's answer on; sent is the provider     *)
(* refresh token the request was made with.                                 *)
ensureFreshTokenFinish(b, w, rr, t, rsAccessToken, record, sent, answer, fails) ==
    LET result == RefreshResult(sent, answer, t)
        tokens == Val(result.tokens)
        providerRefreshRotated == tokens.refresh_token # record.provider.refresh_token
        newRsAccess == IF providerRefreshRotated THEN 0 ELSE record.rs_access_token
        upd == updateByRsRefresh(b, w, t, record.rs_refresh_token, tokens, newRsAccess, fails)
    IN  IF ~result.success \/ IsNull(result.tokens)
        THEN Fresh(w, rr, record.provider.access_token, FALSE)
        ELSE IF upd.threw THEN Fresh(upd.w, rr, tokens.access_token, TRUE)
        ELSE Fresh(upd.w, markRefreshed(rr, t, rsAccessToken), tokens.access_token, TRUE)

(* The object getByRsAccess hands out: a copy parsed from the KV value (0), *)
(* or the RsRecord object of the in-process store (its address), which      *)
(* later updates of the store mutate.                                       *)
RecordRef(b, w, t, rsAccess) ==
    IF b = "kv" /\ ~IsNull(KvGetJson(w.kv, t, AccessKey(rsAccess))) THEN 0
    ELSE IF MapHas(w.mem.rsAccessMap, rsAccess) THEN MapGet(w.mem.rsAccessMap, rsAccess)
    ELSE 0

RecordNow(w, ref, snapshot) ==
    IF ref # 0 /\ ref \in DOMAIN w.mem.heap THEN w.mem.heap[ref] ELSE snapshot

(* handleOAuthStrategy of the Node middleware: the provider token the tool  *)
(* is given for an RS access token (0: none).                               *)
handleOAuthStrategy(b, w, t, rsToken) ==
    LET got == getByRsAccess(b, w, t, rsToken)
    IN  [w |-> got.w,
         providerToken |-> IF ~IsNull(got.r) /\ Val(got.r).provider.access_token # 0
                           THEN Val(got.r).provider.access_token ELSE 0]

-----------------------------------------------------------------------------
(* API calls that present an RS access token (specification FreshSpec): on  *)
(* the Workers runtime resolveAuthContext calls ensureFreshToken, which is  *)
(* suspended while the provider is asked, so that calls overlap; on the     *)
(* Node runtime handleOAuthStrategy resolves the token.  The store holds    *)
(* the record of one completed exchange; on the KV backend this instance's  *)
(* fallback may not have it (it was written by another instance).           *)

(* The Node runtime runs on FileTokenStore, the Workers runtime on          *)
(* KvTokenStore.                                                            *)
FreshBackends == {"file", "kv"}

FreshInit ==
    /\ backend \in FreshBackends
    /\ config \in [hasCreds : BOOLEAN, isDev : {FALSE}, redirectAllowAll : {FALSE}]
    /\ now = 1000
    /\ ticks = 0
    /\ file = Null
    /\ sessions = EmptyMap
    /\ recentlyRefreshed = EmptyMap
    /\ ensures = <<>>
    /\ seq = 2
    /\ flows = <<>>
    /\ grants = <<>>
    /\ others = 0
    /\ calls = 0
    /\ restarts = 0
    /\ written = <<>>
    /\ last = NoCall
    /\ \E rt \in {0, 201}, e \in InitialExpiresIn, local \in BOOLEAN :
          LET w0 == [mem |-> EmptyMem, kv |-> <<>>, saveTimer |-> 0]
              w1 == storeRsMapping(backend, w0, 1000, InitialAccess, InitialProvider(rt, e),
                                   InitialRefresh, 0, 0, {}).w
          IN  /\ local \/ backend = "kv"
              /\ mem = IF local THEN w1.mem ELSE EmptyMem
              /\ kv = w1.kv
              /\ saveTimer = 0

(* The entry of a call in ensures, once it has returned *)
EnsureReturned(entry, res, outcome) ==
    [entry EXCEPT !.pc = "done", !.accessToken = res.accessToken,
                  !.wasRefreshed = res.wasRefreshed, !.outcome = outcome]

(* ensureFreshToken(rsAccessToken, tokenStore, providerConfig) is called *)
EnsureStart(rsToken) ==
    /\ Len(ensures) < MaxEnsures
    /\ LET res == ensureFreshTokenLookup(backend, World, recentlyRefreshed, now, rsToken,
                                         config.hasCreds)
           got == getByRsAccess(backend, World, now, rsToken).r
           provider == Val(got).provider
           entry == [rsToken |-> rsToken, pc |-> res.next, at |-> now,
                     snapshot |-> res.record,
                     ref |-> RecordRef(backend, World, now, rsToken),
                     fetched |-> res.next = "fetch",
                     nearExpiry |-> ~IsNull(got) /\ provider.access_token # 0
                                    /\ isTokenExpiredOrExpiring(now, provider.expires_at),
                     hadRefresh |-> ~IsNull(got) /\ provider.refresh_token # 0,
                     throttled |-> shouldSkipRefresh(recentlyRefreshed, now, rsToken),
                     alone |-> \A x \in 1..Len(ensures) : ensures[x].pc = "done",
                     accessToken |-> 0, wasRefreshed |-> FALSE, outcome |-> "none"]
       IN  /\ SetWorld(res.w)
           /\ recentlyRefreshed' = res.rr
           /\ ensures' = Append(ensures, IF res.next = "done"
                                         THEN EnsureReturned(entry, res, "none")
                                         ELSE entry)
           /\ last' = IF res.next = "done" THEN [op |-> "ensure", e |-> Len(ensures) + 1]
                      ELSE [op |-> "lookup"]
    /\ UNCHANGED <<backend, sessions, calls, restarts, written, now, ticks, file, seq, config,
                   flows, grants, others>>

(* The provider answers the refresh of a suspended ensureFreshToken call *)
EnsureProviderAnswers(e, answer, fails) ==
    /\ ensures[e].pc = "fetch"
    /\ LET entry == ensures[e]
           record == RecordNow(World, entry.ref, Val(entry.snapshot))
           sent == Val(entry.snapshot).provider.refresh_token
           res == ensureFreshTokenFinish(backend, World, recentlyRefreshed, now,
                                         entry.rsToken, record, sent, answer, fails)
       IN  /\ SetWorld(res.w)
           /\ recentlyRefreshed' = res.rr
           /\ ensures' = [ensures EXCEPT ![e] =
                             EnsureReturned(entry, res,
                                            IF res.wasRefreshed THEN "refreshed" ELSE "failed")]
           /\ last' = [op |-> "ensure", e |-> e]
    /\ UNCHANGED <<backend, sessions, calls, restarts, written, now, ticks, file, seq, config,
                   flows, grants, others>>

(* An API call on the Node runtime *)
NodeApiCall(rsToken) ==
    /\ backend = "file"
    /\ LET got == getByRsAccess(backend, World, now, rsToken).r
           provider == Val(got).provider
           res == handleOAuthStrategy(backend, World, now, rsToken)
       IN  /\ SetWorld(res.w)
           /\ last' = [op |-> "nodeApi", rsToken |-> rsToken,
                       providerToken |-> res.providerToken,
                       stored |-> IF IsNull(got) THEN 0 ELSE provider.access_token,
                       nearExpiry |-> ~IsNull(got) /\ provider.access_token # 0
                                      /\ isTokenExpiredOrExpiring(now, provider.expires_at),
                       hadRefresh |-> ~IsNull(got) /\ provider.refresh_token # 0]
    /\ UNCHANGED <<backend, sessions, recentlyRefreshed, ensures, calls, restarts, written, now,
                   ticks, file, seq, config, flows, grants, others>>

FreshDelays == {REFRESH_COOLDOWN_MS}

FreshTick(d) == ticks < MaxFreshTicks /\ Advance(d)

(* What the KV namespace does with the writes of one update: applied in the *)
(* order issued, or the delete of the access key applied last.              *)
KvOrders == IF backend = "kv" THEN {{}, {"delAccessLast"}} ELSE {{}}

FreshNext ==
    \/ EnsureStart(InitialAccess)
    \/ \E e \in 1..Len(ensures), a \in ProactiveAnswers, f \in KvOrders :
          EnsureProviderAnswers(e, a, f)
    \/ NodeApiCall(InitialAccess)
    \/ \E d \in FreshDelays : FreshTick(d)

FreshSpec == FreshInit /\ [][FreshNext]_vars

-----------------------------------------------------------------------------
(* Properties of the proactive refresh (specification FreshSpec) *)

(* The calls that have returned *)
Returned == {e \in 1..Len(ensures) : ensures[e].pc = "done"}

(* The calls that were made for a near-expiry token the provider could      *)
(* refresh                                                                  *)
Refreshable == {e \in 1..Len(ensures) : ensures[e].nearExpiry /\ ensures[e].hadRefresh}

Overlapped(e) == ~ensures[e].alone \/ e < Len(ensures)

(* The step completes call e with a failed provider refresh *)
RefreshFails(e) ==
    /\ ensures[e].pc = "fetch"
    /\ ensures'[e].pc = "done"
    /\ ensures'[e].outcome = "failed"

(* The record of rsToken is still inside the expiry buffer after the step *)
StillNearExpiry(rsToken) ==
    LET got == getByRsAccess(backend, World', now, rsToken).r
    IN  /\ ~IsNull(got)
        /\ Val(got).provider.access_token # 0
        /\ isTokenExpiredOrExpiring(now, Val(got).provider.expires_at)

StoredProviderToken(w, rsToken) ==
    LET got == getByRsAccess(backend, w, now, rsToken).r
    IN  IF IsNull(got) THEN 0 ELSE Val(got).provider.access_token

(* C24: when the provider refresh inside ensureFreshToken fails (status,    *)
(* missing access_token or network error), ensureFreshToken returns the     *)
(* provider access token currently stored in the record with wasRefreshed   *)
(* false, and the stored RsRecord is left unchanged.                        *)
C24_FailedRefreshReturnsStored ==
    [][\A e \in 1..Len(ensures) :
          RefreshFails(e) =>
              /\ ~ensures'[e].wasRefreshed
              /\ ensures'[e].accessToken = StoredProviderToken(World', ensures[e].rsToken)
              /\ mem' = mem /\ kv' = kv /\ file' = file]_vars

(* The step completes call e with a successful provider refresh *)
RefreshSucceeds(e) ==
    /\ ensures[e].pc = "fetch"
    /\ ensures'[e].pc = "done"
    /\ ensures'[e].outcome = "refreshed"

(* The record filed under the refresh token of the initial exchange *)
RecordOf(w) == getByRsRefresh(backend, w, now, InitialRefresh).r

(* C25: a successful proactive refresh rotates the record's RS access token *)
(* only if the provider issued a provider refresh token different from the  *)
(* stored one; when the provider refresh token is unchanged the RS access   *)
(* token stays the same and keeps resolving.                                *)
C25_RotateOnlyWithNewProviderRefresh ==
    [][\A e \in 1..Len(ensures) :
          (RefreshSucceeds(e) /\ ~IsNull(RecordOf(World))) =>
              LET before == Val(RecordOf(World))
                  after == RecordOf(World')
                  unchanged == Val(after).provider.refresh_token = before.provider.refresh_token
              IN  /\ ~IsNull(after)
                  /\ Val(after).rs_access_token # before.rs_access_token => ~unchanged
                  /\ unchanged =>
                        /\ Val(after).rs_access_token = before.rs_access_token
                        /\ ~IsNull(getByRsAccess(backend, World', now,
                                                 before.rs_access_token).r)]_vars

(* The last step returned an ensureFreshToken call of the Workers runtime   *)
(* that found a near-expiry provider token with a provider refresh token,   *)
(* was able to ask the provider, and was not refused by it.                 *)
WorkersCallCouldRenew ==
    /\ last.op = "ensure"
    /\ backend = "kv"
    /\ config.hasCreds
    /\ ensures[last.e].nearExpiry /\ ensures[last.e].hadRefresh
    /\ ~ensures[last.e].throttled
    /\ ensures[last.e].outcome # "failed"

(* The last step resolved the token of a Node API call whose provider token *)
(* was near expiry with a provider refresh token stored.                    *)
NodeCallCouldRenew == last.op = "nodeApi" /\ last.nearExpiry /\ last.hadRefresh

(* C27: on both runtimes an API call that presents an RS access token whose *)
(* provider token is within the 60-second buffer, with a provider refresh   *)
(* token stored, has the provider token renewed through the store before    *)
(* the tool receives it: the tool is given the renewed provider access      *)
(* token.                                                                   *)
C27_RenewedBeforeToolOnBothRuntimes ==
    /\ WorkersCallCouldRenew =>
          /\ ensures[last.e].wasRefreshed
          /\ ~IsNull(RecordOf(World))
          /\ ensures[last.e].accessToken = Val(RecordOf(World)).provider.access_token
    /\ NodeCallCouldRenew => last.providerToken # last.stored

-----------------------------------------------------------------------------
(* The session store of either runtime over time: MemorySessionStore on    *)
(* Node, KvSessionStore over its MemorySessionStore fallback on Workers,    *)
(* with ensure and get calls, the clock and the sweep (specification        *)
(* SessionSpec).  `written` keeps, per session, the time 24 hours after    *)
(* its last ensure or get.                                                  *)

SessionBackends == {"memory", "kv"}

SessionInit ==
    /\ backend \in SessionBackends
    /\ config = Hardened
    /\ now = 1000
    /\ ticks = 0
    /\ mem = EmptyMem
    /\ sessions = EmptyMap
    /\ recentlyRefreshed = EmptyMap
    /\ ensures = <<>>
    /\ kv = <<>>
    /\ file = Null
    /\ saveTimer = 0
    /\ seq = 0
    /\ flows = <<>>
    /\ grants = <<>>
    /\ others = 0
    /\ calls = 0
    /\ restarts = 0
    /\ written = <<>>
    /\ last = NoCall

(* sessionStore.ensure(sessionId) and sessionStore.get(sessionId) on the    *)
(* session store of the runtime                                             *)
sessionEnsure(b, ss, t, sessionId) ==
    IF b = "kv" THEN KvSessionEnsure(ss, t, sessionId, {}).ss
    ELSE [ss EXCEPT !.sessions = MemSessionEnsure(ss.sessions, t, sessionId)]

sessionGet(b, ss, t, sessionId) ==
    IF b = "kv" THEN KvSessionGet(ss, t, sessionId)
    ELSE LET res == MemSessionGet(ss.sessions, t, sessionId)
         IN  [ss |-> [ss EXCEPT !.sessions = res.s], r |-> res.r]

(* The time at which the store will stop reporting the session: expiresAt   *)
(* of the in-process entry, or the expiration of the KV key (in seconds)    *)
(* with the fallback entry behind it.                                       *)
SessionExpiresAt(b, ss, sessionId) ==
    LET inMem == IF MapHas(ss.sessions, sessionId)
                 THEN MapGet(ss.sessions, sessionId).expiresAt ELSE 0
        inKv == IF SessionKey(sessionId) \in DOMAIN ss.kv
                THEN ss.kv[SessionKey(sessionId)].expiration * 1000 ELSE 0
    IN  IF b = "kv" THEN Max(inKv, inMem) ELSE inMem

(* Whether the session was accessed less than 24 hours ago *)
AccessedWithinTtl(sessionId) ==
    /\ SessionKey(sessionId) \in DOMAIN written
    /\ now < written[SessionKey(sessionId)].deadline

Accessed(sessionId) ==
    With(written, SessionKey(sessionId),
         [deadline |-> now + DEFAULT_SESSION_TTL_MS, sibling |-> NoKey])

SessionCallDone(op, sessionId, existed, found, ss) ==
    /\ sessions' = ss.sessions
    /\ kv' = ss.kv
    /\ written' = IF op = "ensure" \/ AccessedWithinTtl(sessionId)
                  THEN Accessed(sessionId)
                  ELSE Without(written, {SessionKey(sessionId)})
    /\ last' = [op |-> op, at |-> now, key |-> sessionId, existed |-> existed,
                found |-> found, due |-> AccessedWithinTtl(sessionId)]
    /\ calls' = calls + 1
    /\ UNCHANGED <<backend, recentlyRefreshed, ensures, mem, saveTimer, restarts, now,
                   ticks, file, seq, config, flows, grants, others>>

(* sessionStore.ensure(sessionId) *)
SessionEnsure(sessionId) ==
    /\ calls < MaxSessionCalls
    /\ SessionCallDone("ensure", sessionId,
                       ~IsNull(sessionGet(backend, Sessions, now, sessionId).r), TRUE,
                       sessionEnsure(backend, Sessions, now, sessionId))

(* sessionStore.get(sessionId) *)
SessionGet(sessionId) ==
    /\ calls < MaxSessionCalls
    /\ LET res == sessionGet(backend, Sessions, now, sessionId)
       IN  SessionCallDone("get", sessionId, ~IsNull(res.r), ~IsNull(res.r), res.ss)

(* The periodic sweep of MemorySessionStore *)
SessionCleanup ==
    /\ sessions' = MemSessionCleanup(sessions, now)
    /\ sessions' # sessions
    /\ UNCHANGED <<backend, recentlyRefreshed, ensures, calls, restarts, written, now, ticks,
                   mem, kv, file, saveTimer, seq, config, flows, grants, others, last>>

SessionDelays == {DEFAULT_SESSION_TTL_MS \div 2, DEFAULT_SESSION_TTL_MS}

SessionTick(d) == ticks < MaxSessionTicks /\ Advance(d)

SessionNext ==
    \/ \E id \in SessionIds : SessionEnsure(id)
    \/ \E id \in SessionIds : SessionGet(id)
    \/ SessionCleanup
    \/ \E d \in SessionDelays : SessionTick(d)

SessionSpec == SessionInit /\ [][SessionNext]_vars

-----------------------------------------------------------------------------
(* Properties of the session stores (specification SessionSpec) *)

(* C28: the expiry of a SessionRecord slides on each access.  Every ensure  *)
(* or get of an existing unexpired session leaves the session with an       *)
(* expiry 24 hours after that call, and a get of a session that was         *)
(* ensured or got less than 24 hours before returns the session.            *)
C28_SessionExpirySlides ==
    (last.op \in {"ensure", "get"} /\ last.at = now) =>
        /\ last.existed =>
               SessionExpiresAt(backend, Sessions, last.key) \div 1000
                   = (now + DEFAULT_SESSION_TTL_MS) \div 1000
        /\ (last.op = "get" /\ last.due) => last.found

-----------------------------------------------------------------------------
(* The debounced save of FileTokenStore, with a clock that resolves the     *)
(* 100 ms of the debounce (specification SaveSpec).  The process holds one  *)
(* RsRecord that is already in the file, and the Transaction and the Code   *)
(* of one authorization attempt.                                            *)

SavedAccess == Opaque(1)
SavedRefresh == Opaque(2)
SavedTxnId == Opaque(3)
SavedCode == Opaque(4)

SaveInit ==
    /\ backend = "file"
    /\ config = Hardened
    /\ now = 2000
    /\ ticks = 0
    /\ sessions = EmptyMap
    /\ recentlyRefreshed = EmptyMap
    /\ ensures = <<>>
    /\ kv = <<>>
    /\ saveTimer = 0
    /\ seq = 4
    /\ flows = <<>>
    /\ grants = <<>>
    /\ others = 0
    /\ calls = 0
    /\ restarts = 0
    /\ last = NoCall
    /\ LET w0 == [mem |-> EmptyMem, kv |-> <<>>, saveTimer |-> 0]
           r1 == storeRsMapping("file", w0, 1000, SavedAccess, IssuedTokensAt(1000),
                                SavedRefresh, 0, 0, {})
           w2 == saveTransaction("file", r1.w, 1000, SavedTxnId, PendingTxn, {}).w
           w3 == saveCode("file", w2, 1000, SavedCode, SavedTxnId, {}).w
       IN  /\ mem = w3.mem
           /\ file = Some(FileRecords(r1.w.mem))
           /\ written = With(With(WrittenRs(<<>>, 1000, r1.r), TxnKey(SavedTxnId),
                                  [deadline |-> 1000 + DEFAULT_TXN_TTL_MS, sibling |-> NoKey]),
                             CodeKey(SavedCode),
                             [deadline |-> 1000 + DEFAULT_CODE_TTL_MS, sibling |-> NoKey])

(* The debounce timer fires once it is due *)
DebounceFires == now >= saveTimer /\ SaveTimerFires

(* One millisecond short of the debounce, and the millisecond that completes it *)
SaveDelays == {SAVE_DEBOUNCE_MS - 1, 1}

SaveTick(d) == ticks < MaxSaveTicks /\ Advance(d)

SaveNext ==
    \/ \E r \in {0} \cup KnownRefresh : StoreCall(r, IssuedTokensAt(now), {})
    \/ \E r \in KnownRefresh, rotate \in BOOLEAN :
          UpdateCall(r, RenewedTokensAt(now), rotate, {})
    \/ SaveTxnCall({})
    \/ \E txnId \in KnownTxn : SaveCodeCall(txnId, {})
    \/ \E txnId \in KnownTxn : DeleteTxnCall(txnId, {})
    \/ \E code \in KnownCode : DeleteCodeCall(code, {})
    \/ DebounceFires
    \/ \E d \in SaveDelays : SaveTick(d)

SaveSpec == SaveInit /\ [][SaveNext]_vars

-----------------------------------------------------------------------------
(* Properties of the debounced save (specification SaveSpec) *)

SavingOps == {"storeRsMapping", "updateByRsRefresh"}

(* This step is a storeRsMapping or updateByRsRefresh call *)
IsSavingCall == calls' = calls + 1 /\ last'.op \in SavingOps

(* This step is saveImmediate() writing the file *)
IsFileWrite == saveTimer # 0 /\ saveTimer' = 0

(* The RsRecords the store holds: those either index leads to *)
HeldRecords(m) ==
    {m.heap[m.rsAccessMap[i].v] : i \in 1..Len(m.rsAccessMap)} \cup
    {m.heap[m.rsRefreshMap[i].v] : i \in 1..Len(m.rsRefreshMap)}

FileContent(f) == {Val(f)[i] : i \in 1..Len(Val(f))}

(* C29: a burst of storeRsMapping / updateByRsRefresh calls, each less than *)
(* 100 ms after the previous one, results in exactly one file write: no     *)
(* write happens between two calls of the burst, after each call one write  *)
(* is pending, and the write happens 100 ms or more after the last call     *)
(* with the full set of records the store holds at that time.               *)
C29_BurstWrittenOnce ==
    [][/\ (IsSavingCall /\ last.op \in SavingOps /\ now - last.at < SAVE_DEBOUNCE_MS)
              => saveTimer # 0
       /\ IsSavingCall => (saveTimer' # 0 /\ file' = file)
       /\ IsFileWrite =>
              /\ last.op \in SavingOps => now >= last.at + SAVE_DEBOUNCE_MS
              /\ ~IsNull(file')
              /\ FileContent(file') = HeldRecords(mem)]_vars

FlowStateOps == {"saveTransaction", "deleteTransaction", "saveCode", "deleteCode"}

(* This step is a saveTransaction, deleteTransaction, saveCode or           *)
(* deleteCode call                                                          *)
IsFlowStateCall == calls' = calls + 1 /\ last'.op \in FlowStateOps

(* Every entry of the file is an RsRecord *)
OnlyRsRecords(f) ==
    IsNull(f) \/ \A x \in FileContent(f) :
        DOMAIN x = {"rs_access_token", "rs_refresh_token", "provider", "created_at",
                    "expiresAt"}

(* C30: the file FileTokenStore writes holds RsRecords only, never a        *)
(* Transaction or a Code, and saveTransaction, deleteTransaction, saveCode  *)
(* and deleteCode leave the file and the debounce timer as they are.        *)
C30_FlowStateNeverPersisted ==
    [][/\ IsFlowStateCall => (file' = file /\ saveTimer' = saveTimer)
       /\ OnlyRsRecords(file')]_vars

(* A Code was saved while the store held a Transaction, after the file was  *)
(* written with the records of an earlier call.                             *)
C30_Witness ==
    /\ last.op = "saveCode"
    /\ MapSize(mem.transactions) > 0 /\ MapHas(mem.codes, last.key)
    /\ saveTimer = 0
    /\ ~IsNull(file) /\ Len(Val(file)) = 2

-----------------------------------------------------------------------------
(* The file written by saveImmediate, loaded by a new FileTokenStore        *)
(* (StoreSpec)                                                              *)

(* The lookups of the reloaded store return the persisted record *)
ResolvesAsWritten(rec) ==
    LET a == ByAccess(rec.rs_access_token)
        r == ByRefresh(rec.rs_refresh_token)
    IN  /\ Carries(a, rec.rs_refresh_token, rec.provider)
        /\ Val(a).rs_access_token = rec.rs_access_token
        /\ Carries(r, rec.rs_refresh_token, rec.provider)
        /\ Val(r).rs_access_token = rec.rs_access_token

AbsentUnderBoth(rec) ==
    /\ IsNull(ByAccess(rec.rs_access_token))
    /\ IsNull(ByRefresh(rec.rs_refresh_token))

ProviderExpiryAhead(rec) == rec.provider.expires_at # 0 /\ now < rec.provider.expires_at
ProviderExpiryPassed(rec) == rec.provider.expires_at # 0 /\ now >= rec.provider.expires_at

(* C31: after the written file has been loaded into a new FileTokenStore,   *)
(* every written record whose provider token expires in the future resolves *)
(* by its RS access token and by its RS refresh token to the provider       *)
(* tokens it was written with, and every written record whose provider      *)
(* token has expired is absent under both tokens.                           *)
C31_ReloadKeepsUnexpired ==
    JustRestarted =>
        \A i \in 1..Len(PersistedRecords) :
            /\ ProviderExpiryAhead(PersistedRecords[i]) => ResolvesAsWritten(PersistedRecords[i])
            /\ ProviderExpiryPassed(PersistedRecords[i]) => AbsentUnderBoth(PersistedRecords[i])

C31_Witness ==
    /\ JustRestarted
    /\ \E i, j \in 1..Len(PersistedRecords) :
          /\ ProviderExpiryAhead(PersistedRecords[i])
          /\ ResolvesAsWritten(PersistedRecords[i])
          /\ ProviderExpiryPassed(PersistedRecords[j])
          /\ AbsentUnderBoth(PersistedRecords[j])

-----------------------------------------------------------------------------
(* The text of a provider's error response in logs and responses            *)
(* (specification LeakSpec).  A body is a sequence of characters: positive  *)
(* numbers are printable characters, each marked with its position, and 0   *)
(* is a blank.                                                              *)

LOG_BODY_PREFIX == 200     \* text.substring(0, 200) in the log entries
ERROR_BODY_PREFIX == 100   \* text.substring(0, 100) in RefreshResult.error

Blank == 0

(* String.prototype.substring(0, n) *)
substring(text, n) == SubSeq(text, 1, IF n < Len(text) THEN n ELSE Len(text))

(* String.prototype.trim() of a text that starts with a printable character *)
RECURSIVE trim(_)
trim(text) ==
    IF text # <<>> /\ text[Len(text)] = Blank THEN trim(SubSeq(text, 1, Len(text) - 1))
    ELSE text

(* handleProviderCallback, !resp.ok: one log entry, then the thrown Error   *)
CallbackProviderError(status, text) ==
    [logged |-> <<substring(text, LOG_BODY_PREFIX)>>,
     message |-> [error |-> "provider_token_error", status |-> status,
                  body |-> trim(text)]]

(* refreshProviderToken of the flow engine, !resp.ok, and the catch of      *)
(* handleToken around it: the thrown texts carry no part of the body.       *)
FlowRefreshError(status, text) ==
    [logged |-> <<substring(text, LOG_BODY_PREFIX), <<>>>>,
     message |-> [error |-> "provider_refresh_failed", status |-> 0, body |-> <<>>]]

(* refreshProviderToken of the refresh controller, !resp.ok, and the log    *)
(* entry ensureFreshToken writes with result.error                          *)
ControllerRefreshError(status, text) ==
    LET error == substring(text, ERROR_BODY_PREFIX)
    IN  [logged |-> <<substring(text, LOG_BODY_PREFIX), error>>,
         message |-> [error |-> "Provider returned", status |-> status, body |-> error]]

(* The catch of a route: the message is logged and becomes the response *)
RouteError(thrown) ==
    [logged |-> Append(thrown.logged, thrown.message.body),
     response |-> thrown.message]

MaxBodyExcess == 1   \* characters by which a body exceeds a prefix length

Body(n) == [i \in 1..n |-> i]

ErrorBodies ==
    {Body(n) : n \in {0, ERROR_BODY_PREFIX, ERROR_BODY_PREFIX + MaxBodyExcess,
                      LOG_BODY_PREFIX, LOG_BODY_PREFIX + MaxBodyExcess}}
    \cup {Append(Body(LOG_BODY_PREFIX), Blank)}

ErrorStatuses == {400, 401, 500}

(* GET /oauth/callback while the provider answers the code exchange with an *)
(* error status and the body text                                           *)
CallbackRoute(f, status, text) ==
    /\ flows[f].pc = "atProvider"
    /\ LET answer == [ok |-> FALSE, access_token |-> 0, refresh_token |-> 0, expires_in |-> 0]
           res == handleProviderCallback(backend, World, now, config,
                                         flows[f].compositeState, answer, Opaque(seq + 1))
           out == RouteError(CallbackProviderError(status, text))
       IN  /\ ~res.ok /\ res.error = "provider_token_error"
           /\ SetWorld(res.w)
           /\ flows' = [flows EXCEPT ![f].pc = "failed"]
           /\ last' = [op |-> "callbackRoute", flow |-> f, text |-> text,
                       logged |-> out.logged, response |-> out.response]
    /\ UNCHANGED <<backend, sessions, recentlyRefreshed, ensures, calls, restarts, written, now, ticks, file, seq, config, grants, others>>

(* POST /token with the refresh_token grant while the provider answers the  *)
(* refresh with an error status and the body text                           *)
TokenRouteRefreshFails(status, text) ==
    /\ LET out == RouteError(FlowRefreshError(status, text))
       IN  last' = [op |-> "tokenRoute", text |-> text,
                    logged |-> out.logged, response |-> out.response]
    /\ UNCHANGED <<backend, sessions, recentlyRefreshed, ensures, calls, restarts, written, now, ticks, mem, kv, file, saveTimer, seq, config, flows, grants, others>>

(* ensureFreshToken while the provider answers the refresh with an error    *)
(* status and the body text: the caller gets the stored token, no error     *)
EnsureRefreshFails(status, text) ==
    /\ LET out == ControllerRefreshError(status, text)
       IN  last' = [op |-> "ensureFreshToken", text |-> text,
                    logged |-> out.logged,
                    response |-> [error |-> "", status |-> 0, body |-> <<>>]]
    /\ UNCHANGED <<backend, sessions, recentlyRefreshed, ensures, calls, restarts, written, now, ticks, mem, kv, file, saveTimer, seq, config, flows, grants, others>>

LeakInit ==
    /\ InitCommon
    /\ config \in [hasCreds : {TRUE}, isDev : BOOLEAN, redirectAllowAll : {FALSE}]

LeakNext ==
    \/ \E input \in AuthorizeInputs : Authorize(input)
    \/ \E f \in 1..Len(flows), s \in ErrorStatuses, text \in ErrorBodies : CallbackRoute(f, s, text)
    \/ \E s \in ErrorStatuses, text \in ErrorBodies : TokenRouteRefreshFails(s, text)
    \/ \E s \in ErrorStatuses, text \in ErrorBodies : EnsureRefreshFails(s, text)

LeakSpec == LeakInit /\ [][LeakNext]_vars

SurfacesProviderError == last.op \in {"callbackRoute", "tokenRoute", "ensureFreshToken"}

IsPrefixOf(part, text) == Len(part) <= Len(text) /\ part = SubSeq(text, 1, Len(part))

(* C32: no error surfaced to the caller or written to the log carries more  *)
(* than a fixed-length prefix of the provider's error response body: every  *)
(* logged part and the part in the response is a prefix of the body of at   *)
(* most LOG_BODY_PREFIX characters.                                         *)
C32_ProviderBodyTruncated ==
    SurfacesProviderError =>
        /\ \A i \in 1..Len(last.logged) :
              /\ IsPrefixOf(last.logged[i], last.text)
              /\ Len(last.logged[i]) <= LOG_BODY_PREFIX
        /\ IsPrefixOf(last.response.body, last.text)
        /\ Len(last.response.body) <= LOG_BODY_PREFIX

-----------------------------------------------------------------------------
(* handleToken (authorization_code grant) and handleProviderCallback as     *)
(* they run concurrently: every await of a handler ends a step, and the     *)
(* calls of other requests may run between two steps (specification         *)
(* RaceSpec).  grants[g] is one call in flight: the values its local        *)
(* variables hold and the await it has reached.                             *)

MaxRaceCalls == 3   \* handler calls started per run of RaceSpec

(* handleToken up to `await store.getTxnIdByCode(input.code)` *)
handleTokenCodeLookupBurnsCode(b, w, t, code) ==
    LET c == getTxnIdByCode(b, w, t, code)
    IN  [w |-> deleteCode(b, c.w, code, {}).w, ok |-> c.r # 0,
         error |-> IF c.r # 0 THEN "" ELSE "invalid_grant", txnId |-> c.r]

handleTokenCodeLookup(b, w, t, code) ==
    LET c == getTxnIdByCode(b, w, t, code)
    IN  [w |-> c.w, ok |-> c.r # 0, error |-> IF c.r # 0 THEN "" ELSE "invalid_grant",
         txnId |-> c.r]

(* ... up to `await store.getTransaction(txnId)` *)
handleTokenCodeTxn(b, w, t, txnId) ==
    LET g == getTransaction(b, w, t, txnId)
    IN  [w |-> g.w, ok |-> ~IsNull(g.r),
         error |-> IF IsNull(g.r) THEN "invalid_grant" ELSE "", txn |-> g.r]

(* ... the PKCE comparison after `await sha256B64UrlAsync`, the minting and *)
(* `await store.storeRsMapping`                                             *)
handleTokenCodeMint(b, w, t, txn, codeVerifier, rsAccess, rsRefresh) ==
    IF ~PkceMatches(txn.codeChallenge, codeVerifier)
    THEN [w |-> w, ok |-> FALSE, error |-> "invalid_grant"]
    ELSE [w |-> TokenMint(b, w, t, txn, rsAccess, rsRefresh), ok |-> TRUE, error |-> ""]

(* handleProviderCallback up to `await store.getTransaction(txnId)` *)
handleProviderCallbackLookup(b, w, t, compositeState) ==
    LET decoded == base64UrlDecodeJson(compositeState)
        txnId == IF ~IsNull(Property(decoded, "tid")) THEN decoded.tid ELSE compositeState
        got == getTransaction(b, w, t, txnId)
    IN  [w |-> got.w, ok |-> ~IsNull(got.r),
         error |-> IF IsNull(got.r) THEN "unknown_txn" ELSE "",
         txnId |-> txnId, txn |-> got.r]

(* ... the provider's answer and `await store.saveTransaction(txnId, txn)` *)
handleProviderCallbackSave(b, w, t, txnId, txn, answer) ==
    IF ~answer.ok THEN [w |-> w, ok |-> FALSE, error |-> "provider_token_error"]
    ELSE IF answer.access_token = 0 THEN [w |-> w, ok |-> FALSE, error |-> "provider_no_token"]
    ELSE LET providerTokens == [access_token |-> answer.access_token,
                                refresh_token |-> answer.refresh_token,
                                expires_at |-> ExpiresAt(t, answer.expires_in)]
         IN  [w |-> saveTransaction(b, w, t, txnId,
                                    [txn EXCEPT !.provider = Some(providerTokens)], {}).w,
              ok |-> TRUE, error |-> ""]

(* ... `await store.saveCode(asCode, txnId)` and the redirect *)
handleProviderCallbackCode(b, w, t, txnId, asCode) == saveCode(b, w, t, asCode, txnId, {}).w

(* The codes the caller of attempt f was redirected with *)
CodesOf(f) ==
    ({flows[f].code} \cup
     {grants[g].code : g \in {x \in 1..Len(grants) :
                                 /\ grants[x].kind = "callback"
                                 /\ grants[x].flow = f
                                 /\ grants[x].pc = "done"}}) \ {0}

RaceCall(kind, f, pc, error) ==
    [kind |-> kind, flow |-> f, pc |-> pc, error |-> error, code |-> 0, codeVerifier |-> 0,
     txnId |-> 0, txn |-> Null, rsAccess |-> 0, rsRefresh |-> 0, after |-> {}]

(* The calls that have returned or thrown already *)
Finished == {g \in 1..Len(grants) : grants[g].pc \in {"done", "failed"}}

(* No call started before every earlier call had ended *)
OneAtATime == \A i, j \in 1..Len(grants) : i < j => i \in grants[j].after

RaceFrame == UNCHANGED <<backend, sessions, recentlyRefreshed, ensures, calls, restarts, written, now, ticks, file, config, flows, others, last>>

(* POST /token arrives with a code of attempt f *)
RedeemStart(f, code, codeVerifier) ==
    /\ Len(grants) < MaxRaceCalls
    /\ code \in CodesOf(f)
    /\ LET res == handleTokenCodeLookup(backend, World, now, code)
       IN  /\ SetWorld(res.w)
           /\ grants' = Append(grants,
                  [RaceCall("token", f, IF res.ok THEN "getTransaction" ELSE "failed", res.error)
                      EXCEPT !.code = code, !.codeVerifier = codeVerifier,
                             !.txnId = res.txnId, !.after = Finished])
    /\ seq' = seq
    /\ RaceFrame

RedeemGetTransaction(g) ==
    /\ grants[g].kind = "token" /\ grants[g].pc = "getTransaction"
    /\ LET res == handleTokenCodeTxn(backend, World, now, grants[g].txnId)
       IN  /\ SetWorld(res.w)
           /\ grants' = [grants EXCEPT ![g].pc = IF res.ok THEN "mint" ELSE "failed",
                                       ![g].error = res.error, ![g].txn = res.txn]
    /\ seq' = seq
    /\ RaceFrame

RedeemMint(g) ==
    /\ grants[g].kind = "token" /\ grants[g].pc = "mint"
    /\ LET res == handleTokenCodeMint(backend, World, now, Val(grants[g].txn),
                                      grants[g].codeVerifier, Opaque(seq + 1), Opaque(seq + 2))
       IN  /\ SetWorld(res.w)
           /\ grants' = [grants EXCEPT ![g].pc = IF res.ok THEN "deleteTransaction" ELSE "failed",
                                       ![g].error = res.error,
                                       ![g].rsAccess = IF res.ok THEN Opaque(seq + 1) ELSE 0,
                                       ![g].rsRefresh = IF res.ok THEN Opaque(seq + 2) ELSE 0]
           /\ seq' = IF res.ok THEN seq + 2 ELSE seq
    /\ RaceFrame

RedeemDeleteTransaction(g) ==
    /\ grants[g].kind = "token" /\ grants[g].pc = "deleteTransaction"
    /\ SetWorld(deleteTransaction(backend, World, grants[g].txnId, {}).w)
    /\ grants' = [grants EXCEPT ![g].pc = "deleteCode"]
    /\ seq' = seq
    /\ RaceFrame

RedeemDeleteCode(g) ==
    /\ grants[g].kind = "token" /\ grants[g].pc = "deleteCode"
    /\ SetWorld(deleteCode(backend, World, grants[g].code, {}).w)
    /\ grants' = [grants EXCEPT ![g].pc = "done"]
    /\ seq' = seq
    /\ RaceFrame

(* GET /oauth/callback arrives with the composite state of attempt f *)
CallbackStart(f) ==
    /\ Len(grants) < MaxRaceCalls
    /\ flows[f].pc = "atProvider"
    /\ LET res == handleProviderCallbackLookup(backend, World, now, flows[f].compositeState)
       IN  /\ SetWorld(res.w)
           /\ grants' = Append(grants,
                  [RaceCall("callback", f, IF res.ok THEN "fetch" ELSE "failed", res.error)
                      EXCEPT !.txnId = res.txnId, !.txn = res.txn, !.after = Finished])
    /\ seq' = seq
    /\ RaceFrame

CallbackProviderAnswers(g, answer) ==
    /\ grants[g].kind = "callback" /\ grants[g].pc = "fetch"
    /\ LET res == handleProviderCallbackSave(backend, World, now, grants[g].txnId,
                                             Val(grants[g].txn), answer)
       IN  /\ SetWorld(res.w)
           /\ grants' = [grants EXCEPT ![g].pc = IF res.ok THEN "saveCode" ELSE "failed",
                                       ![g].error = res.error]
    /\ seq' = seq
    /\ RaceFrame

CallbackSaveCode(g) ==
    /\ grants[g].kind = "callback" /\ grants[g].pc = "saveCode"
    /\ SetWorld(handleProviderCallbackCode(backend, World, now, grants[g].txnId, Opaque(seq + 1)))
    /\ grants' = [grants EXCEPT ![g].pc = "done", ![g].code = Opaque(seq + 1)]
    /\ seq' = seq + 1
    /\ RaceFrame

(* One client with a valid PKCE pair *)
RaceInputs ==
    [codeChallenge : {sha256B64UrlAsync(1)}, codeChallengeMethod : {"S256"},
     redirectUri : {AppUri}, state : {Some("s1")}]

RaceNext ==
    \/ \E input \in RaceInputs : Authorize(input)
    \/ \E f \in 1..Len(flows), code \in 1..seq, v \in Verifiers : RedeemStart(f, code, v)
    \/ \E g \in 1..Len(grants) : RedeemGetTransaction(g)
    \/ \E g \in 1..Len(grants) : RedeemMint(g)
    \/ \E g \in 1..Len(grants) : RedeemDeleteTransaction(g)
    \/ \E g \in 1..Len(grants) : RedeemDeleteCode(g)
    \/ \E f \in 1..Len(flows) : CallbackStart(f)
    \/ \E g \in 1..Len(grants), a \in ProviderAnswers : CallbackProviderAnswers(g, a)
    \/ \E g \in 1..Len(grants) : CallbackSaveCode(g)

RaceSpec == Init /\ [][RaceNext]_vars

(* The successful token exchanges of a code, and the RS pairs they stored *)
Redeemed(code) ==
    {g \in 1..Len(grants) :
        grants[g].kind = "token" /\ grants[g].code = code /\ grants[g].pc = "done"}

StoredPairs(code) ==
    {g \in 1..Len(grants) :
        /\ grants[g].kind = "token" /\ grants[g].code = code /\ grants[g].rsAccess # 0
        /\ ~IsNull(getByRsAccess(backend, World, now, grants[g].rsAccess).r)}

(* C33: of the handleToken calls that present the same code with the        *)
(* correct verifier, however their steps interleave, at most one succeeds   *)
(* and at most one RS token pair is stored for the Transaction.             *)
C33_CodeRedeemedOnceConcurrently ==
    \A code \in 1..seq :
        /\ Cardinality(Redeemed(code)) <= 1
        /\ Cardinality(StoredPairs(code)) <= 1

(* A successful token exchange of attempt f has returned *)
Exchanged(f) ==
    \E g \in 1..Len(grants) :
        grants[g].kind = "token" /\ grants[g].flow = f /\ grants[g].pc = "done"

(* A token exchange that presented the code now, with the right verifier,   *)
(* would succeed for the Transaction                                        *)
Redeemable(code, txnId) ==
    /\ getTxnIdByCode(backend, World, now, code).r = txnId
    /\ handleTokenCode(backend, World, now, code, 1, Opaque(seq + 1), Opaque(seq + 2)).ok

PairsOf(f) ==
    {g \in 1..Len(grants) :
        /\ grants[g].kind = "token" /\ grants[g].flow = f /\ grants[g].rsAccess # 0
        /\ ~IsNull(getByRsAccess(backend, World, now, grants[g].rsAccess).r)}

(* C34: once a successful token exchange has deleted the Transaction, it    *)
(* stays deleted: no handleProviderCallback call for the same txnId, also   *)
(* one that read the Transaction before the exchange and finishes after it, *)
(* brings the Transaction back or issues a code that can be redeemed, and   *)
(* the attempt yields at most one RS token pair.                            *)
C34_TransactionStaysDeleted ==
    \A f \in 1..Len(flows) :
        Exchanged(f) =>
            /\ ~TxnResolves(flows[f].txnId)
            /\ \A code \in 1..seq : ~Redeemable(code, flows[f].txnId)
            /\ Cardinality(PairsOf(f)) <= 1

-----------------------------------------------------------------------------
(* A refresh_token grant and ensureFreshToken calls for the same record,    *)
(* each suspended while the provider is asked (specification RotateSpec).   *)

RotateInit == FreshInit /\ config.hasCreds

RotateNext ==
    \/ EnsureStart(InitialAccess)
    \/ \E e \in 1..Len(ensures), a \in ProactiveAnswers, f \in KvOrders :
          EnsureProviderAnswers(e, a, f)
    \/ GrantStart(InitialRefresh)
    \/ \E g \in 1..Len(grants), a \in RefreshAnswers : GrantProviderAnswers(g, a)
    \/ \E d \in FreshDelays : FreshTick(d)

RotateSpec == RotateInit /\ [][RotateNext]_vars

(* The grants that have answered with tokens; the n-th of them issued the   *)
(* n-th opaque token after the initial pair.                                *)
Rotations == {g \in 1..Len(grants) : grants[g].pc = "done"}
RotatedTo == Opaque(InitialRefresh + Cardinality(Rotations))
RotatedFrom == ({InitialAccess} \cup {Opaque(n) : n \in InitialRefresh + 1..seq}) \ {RotatedTo}

(* C35: once a refresh_token grant has rotated the record's RS access       *)
(* token, the replaced access tokens do not resolve and the new one does    *)
(* (no record expires in these runs), also when an ensureFreshToken call    *)
(* that read the record before the rotation writes after it.                *)
C35_RotationSurvivesProactiveRefresh ==
    Rotations # {} =>
        /\ \A a \in RotatedFrom : IsNull(getByRsAccess(backend, World, now, a).r)
        /\ ~IsNull(getByRsAccess(backend, World, now, RotatedTo).r)

-----------------------------------------------------------------------------
(* Overlapping ensureFreshToken calls that both refreshed (FreshSpec) *)

(* Calls o and e were in flight together: the later of them started while   *)
(* an earlier call had not returned.                                        *)
InFlightTogether(o, e) == o # e /\ ~ensures[IF o < e THEN e ELSE o].alone

(* The step completes call e with a successful refresh after a call that    *)
(* overlapped it had completed with a successful refresh.                   *)
LandsLast(e) ==
    /\ RefreshSucceeds(e)
    /\ \E o \in 1..Len(ensures) :
          /\ InFlightTogether(o, e)
          /\ ensures[o].pc = "done" /\ ensures[o].fetched /\ ensures[o].outcome = "refreshed"

(* Both indices of store state w resolve to one record with these provider  *)
(* tokens.                                                                  *)
ConvergedOn(w, tokens) ==
    LET a == getByRsAccess(backend, w, now, InitialAccess).r
        r == getByRsRefresh(backend, w, now, InitialRefresh).r
    IN  /\ ~IsNull(a) /\ ~IsNull(r)
        /\ Val(a) = Val(r)
        /\ Val(a).provider = tokens

(* C36: when two overlapping ensureFreshToken calls for the same near-expiry *)
(* RS token have both called the provider and both have completed, the       *)
(* access-token index and the refresh-token index resolve to one and the     *)
(* same record, whose provider tokens are those of the update that landed    *)
(* last.                                                                     *)
C36_ConvergesOnLastUpdate ==
    [][\A e \in 1..Len(ensures) :
          LandsLast(e) =>
              \E a \in ProactiveAnswers, f \in KvOrders :
                  /\ EnsureProviderAnswers(e, a, f)
                  /\ ConvergedOn(World', Val(RefreshResult(
                         Val(ensures[e].snapshot).provider.refresh_token, a, now).tokens))]_vars

-----------------------------------------------------------------------------
(* FileTokenStore.flush(), as gracefulShutdown calls it (specification      *)
(* FlushSpec: the saving calls and the clock of SaveSpec, and flush)        *)

flushKeepsTimer(m, timer) == [file |-> Some(FileRecords(m)), saveTimer |-> timer]

(* flush(): clear the debounce timer if one is set, then saveImmediate() *)
flush(m, timer) == [file |-> Some(FileRecords(m)), saveTimer |-> 0]

FlushCall ==
    /\ backend = "file"
    /\ LET res == flush(mem, saveTimer)
       IN  /\ file' = res.file
           /\ saveTimer' = res.saveTimer
           /\ last' = [op |-> "flush", at |-> now, pending |-> saveTimer,
                       after |-> last.op, file |-> res.file]
    /\ UNCHANGED <<backend, sessions, recentlyRefreshed, ensures, calls, restarts, written, now, ticks, mem, kv, seq, config, flows, grants, others>>

FlushNext ==
    \/ \E r \in {0} \cup KnownRefresh : StoreCall(r, IssuedTokensAt(now), {})
    \/ \E r \in KnownRefresh, rotate \in BOOLEAN :
          UpdateCall(r, RenewedTokensAt(now), rotate, {})
    \/ DebounceFires
    \/ \E d \in SaveDelays : SaveTick(d)
    \/ FlushCall

FlushSpec == SaveInit /\ [][FlushNext]_vars

(* This step is a flush() call *)
IsFlush == last'.op = "flush" /\ last' # last

(* The records saveImmediate serializes: those of the access-token index *)
AccessIndexRecords(m) == {m.heap[m.rsAccessMap[i].v] : i \in 1..Len(m.rsAccessMap)}

-----------------------------------------------------------------------------
(* The debounced save over unbounded time (specification LiveSpec).         *)
(* save() hands setTimeout a delay, not a due time, so this specification   *)
(* keeps the reading of the clock and lets the passage of d ms bring the    *)
(* due time of the pending timer d ms closer; runs of any length then stay  *)
(* within finitely many states.  The store holds the record of SaveSpec;    *)
(* updateByRsRefresh is called any number of times.                         *)

LiveProviders == {IssuedTokensAt(now), RenewedTokensAt(now)}

(* One millisecond short of the debounce, and the whole of it *)
LiveDelays == {SAVE_DEBOUNCE_MS - 1, SAVE_DEBOUNCE_MS}

(* updateByRsRefresh for the record the store holds, the RS access token    *)
(* kept                                                                     *)
LiveUpdate(provider) ==
    /\ LET res == updateByRsRefresh(backend, World, now, SavedRefresh, provider, 0, {})
       IN  /\ SetWorld(res.w)
           /\ written' = IF IsNull(res.r) THEN written
                         ELSE WrittenRs(written, now, Val(res.r))
           /\ last' = [op |-> "updateByRsRefresh", at |-> now, rsRefresh |-> SavedRefresh,
                       provider |-> provider, newAccess |-> 0,
                       previous |-> PreviousAccess(backend, World, now, SavedRefresh),
                       fails |-> {}, r |-> res.r, threw |-> res.threw]
    /\ UNCHANGED <<backend, sessions, recentlyRefreshed, ensures, calls, restarts, now, ticks, file, seq, config, flows, grants, others>>

(* d ms pass while the timer is pending and not yet due *)
LiveElapse(d) ==
    /\ saveTimer # 0 /\ now < saveTimer
    /\ saveTimer' = IF saveTimer - d > now THEN saveTimer - d ELSE now
    /\ UNCHANGED <<backend, sessions, recentlyRefreshed, ensures, calls, restarts, written, now, ticks, mem, kv, file, seq, config, flows, grants, others, last>>

(* A storeRsMapping or updateByRsRefresh call *)
LiveMutation ==
    \/ \E r \in {0} \cup KnownRefresh : StoreCall(r, IssuedTokensAt(now), {})
    \/ \E provider \in LiveProviders : LiveUpdate(provider)

LiveNext ==
    \/ LiveMutation
    \/ DebounceFires
    \/ \E d \in LiveDelays : LiveElapse(d)

(* Time passes, and Node runs the callback of a timer that stays due *)
LiveSpec ==
    /\ SaveInit
    /\ [][LiveNext]_vars
    /\ WF_vars(\E d \in LiveDelays : LiveElapse(d))
    /\ WF_vars(DebounceFires)

(* A call has armed the timer and the write has not happened yet *)
WritePending == saveTimer # 0

(* No write is pending and the file holds the records of the store *)
Persisted ==
    /\ saveTimer = 0
    /\ ~IsNull(file) /\ FileContent(file) = AccessIndexRecords(mem)

-----------------------------------------------------------------------------
(* handleToken calls that fail with invalid_grant (specification RetrySpec: *)
(* the handleToken calls of RaceSpec for the code of one authorization      *)
(* attempt, and the clock, so that the Code and the Transaction expire)     *)

(* handleToken calls and clock advances per run of RetrySpec *)
MaxRetryCalls == 2
MaxRetryTicks == 2

(* The store after one authorization attempt has handed its code to the     *)
(* caller: by handleAuthorize itself without provider credentials, by       *)
(* handleProviderCallback with them.                                        *)
RetryInit ==
    /\ backend \in Backends
    /\ config \in [hasCreds : BOOLEAN, isDev : {FALSE}, redirectAllowAll : {FALSE}]
    /\ now = 1000
    /\ ticks = 0
    /\ sessions = EmptyMap
    /\ recentlyRefreshed = EmptyMap
    /\ ensures = <<>>
    /\ file = Null
    /\ seq = 2
    /\ grants = <<>>
    /\ others = 0
    /\ calls = 0
    /\ restarts = 0
    /\ written = <<>>
    /\ last = NoCall
    /\ \E input \in RaceInputs, answer \in {a \in ProviderAnswers : a.access_token # 0} :
          LET w0 == [mem |-> EmptyMem, kv |-> <<>>, saveTimer |-> 0]
              au == handleAuthorize(backend, w0, 1000, config, input, Opaque(1), Opaque(2))
              cb == handleProviderCallback(backend, au.w, 1000, config, au.compositeState,
                                           answer, Opaque(2))
              w1 == IF config.hasCreds THEN cb.w ELSE au.w
          IN  /\ mem = w1.mem
              /\ kv = w1.kv
              /\ saveTimer = w1.saveTimer
              /\ flows = <<[txnId |-> au.txnId, challenge |-> input.codeChallenge,
                            redirectUri |-> input.redirectUri, state |-> input.state,
                            compositeState |-> au.compositeState, pc |-> "hasCode",
                            code |-> IF config.hasCreds THEN cb.code ELSE au.code,
                            answer |-> IF config.hasCreds THEN Some(answer) ELSE Null,
                            redeemed |-> FALSE]>>

RetryStart(f, code, codeVerifier) ==
    /\ Len(grants) < MaxRetryCalls
    /\ RedeemStart(f, code, codeVerifier)

RetryTick(d) == ticks < MaxRetryTicks /\ Advance(d)

RetryNext ==
    \/ \E f \in 1..Len(flows), code \in 1..seq, v \in Verifiers : RetryStart(f, code, v)
    \/ \E g \in 1..Len(grants) : RedeemGetTransaction(g)
    \/ \E g \in 1..Len(grants) : RedeemMint(g)
    \/ \E g \in 1..Len(grants) : RedeemDeleteTransaction(g)
    \/ \E g \in 1..Len(grants) : RedeemDeleteCode(g)
    \/ \E d \in FlowDelays : RetryTick(d)

RetrySpec == RetryInit /\ [][RetryNext]_vars

(* The verifier the client holds: the one its code challenge was made from *)
CorrectVerifier == CHOOSE v \in Verifiers : PkceMatches(flows[1].challenge, v)

(* The entries of a TTL map stay as they were, except that entries whose    *)
(* expiry has passed may be gone                                            *)
KeptUnlessExpired(before, after, t) ==
    /\ \A i \in 1..Len(after) : \E j \in 1..Len(before) : before[j] = after[i]
    /\ \A j \in 1..Len(before) :
          ~Expired(t, before[j].v.expiresAt) => \E i \in 1..Len(after) : after[i] = before[j]

(* This step leaves the RsRecords, the KV namespace and the file alone, and *)
(* every Code and Transaction that has not expired                          *)
StoreUntouched ==
    /\ mem'.heap = mem.heap
    /\ mem'.rsAccessMap = mem.rsAccessMap /\ mem'.rsRefreshMap = mem.rsRefreshMap
    /\ KeptUnlessExpired(mem.codes, mem'.codes, now)
    /\ KeptUnlessExpired(mem.transactions, mem'.transactions, now)
    /\ kv' = kv /\ file' = file /\ saveTimer' = saveTimer

(* A whole handleToken call with the correct verifier, made at time t in    *)
(* the store w, succeeds                                                    *)
WouldRedeem(w, t, code) ==
    handleTokenCode(backend, w, t, code, CorrectVerifier, Opaque(seq + 1), Opaque(seq + 2)).ok

(* The times of a later exchange *)
LaterTimes == {now} \cup {now + d : d \in FlowDelays}

(* Step of the handleToken call g in which it fails with invalid_grant *)
FailsNow(g) ==
    /\ g \in 1..Len(grants')
    /\ grants'[g].kind = "token" /\ grants'[g].pc = "failed"
    /\ g \in 1..Len(grants) => grants[g].pc # "failed"

(* C39 (as stated): a handleToken call with the authorization_code grant    *)
(* that fails with invalid_grant leaves the store unchanged: the Codes, the *)
(* Transactions and the RsRecords are after the failing step what they were *)
(* before it.                                                               *)
C39_FailedExchangeChangesNothing ==
    [][\A g \in 1..Len(grants') :
          FailsNow(g) =>
              /\ grants'[g].error = "invalid_grant"
              /\ World' = World /\ file' = file]_vars

(* C39 (amended): a handleToken call with the authorization_code grant that *)
(* fails with invalid_grant (unknown code, missing Transaction or wrong     *)
(* verifier) leaves the store as it was in every step it takes, except that *)
(* a Code or Transaction whose expiry has passed may be removed: no         *)
(* RsRecord is created, and every Code and Transaction that has not expired *)
(* stays as it was; an exchange of the same code with the correct verifier  *)
(* that would have succeeded before the failing step, at once or later      *)
(* within the TTL, succeeds after it as well.                               *)
C39_FailedExchangeLeavesStore ==
    [][\A g \in 1..Len(grants') :
          /\ (g \in 1..Len(grants) /\ grants[g].kind = "token"
                 /\ grants[g].pc \in {"getTransaction", "mint"}
                 /\ grants'[g].pc # grants[g].pc
                 /\ grants'[g].pc \in {"mint", "failed"}) => StoreUntouched
          /\ (g \notin 1..Len(grants) /\ grants'[g].kind = "token") => StoreUntouched
          /\ FailsNow(g) =>
                /\ grants'[g].error = "invalid_grant"
                /\ StoreUntouched
                /\ \A t \in LaterTimes :
                      WouldRedeem(World, t, grants'[g].code)
                          => WouldRedeem(World', t, grants'[g].code)]_vars

(* A handleToken call failed on the wrong verifier; time passed; a later    *)
(* call with the same code and the correct verifier succeeded.              *)
C39_Witness ==
    \E g1, g2 \in 1..Len(grants) :
        /\ grants[g1].kind = "token" /\ grants[g1].pc = "failed"
        /\ grants[g1].codeVerifier # CorrectVerifier /\ ~IsNull(grants[g1].txn)
        /\ grants[g2].kind = "token" /\ grants[g2].pc = "done"
        /\ grants[g2].code = grants[g1].code /\ g1 \in grants[g2].after
        /\ ticks > 0

-----------------------------------------------------------------------------
(* The record KvTokenStore.storeRsMapping returns (specification KvSpec) *)

(* This step is a storeRsMapping call *)
IsStoreCall == calls' = calls + 1 /\ last'.op = "storeRsMapping"

(* A lookup result carries the tokens of the record rec *)
CarriesTokensOf(got, rec) ==
    /\ ~IsNull(got)
    /\ Val(got).rs_access_token = rec.rs_access_token
    /\ Val(got).rs_refresh_token = rec.rs_refresh_token
    /\ Val(got).provider = rec.provider

(* The lookups of the same process, made right after the call, return the   *)
(* record rec                                                               *)
HeldAsReturned(w, rec) ==
    /\ CarriesTokensOf(getByRsRefresh(backend, w, now, rec.rs_refresh_token).r, rec)
    /\ CarriesTokensOf(getByRsAccess(backend, w, now, rec.rs_access_token).r, rec)

(* C40: the record KvTokenStore.storeRsMapping returns is the record the    *)
(* store holds: after every call, with or without an rsRefresh argument and *)
(* whether or not the KV writes are rejected, getByRsRefresh and            *)
(* getByRsAccess of the same process return a record with the returned      *)
(* access token, refresh token and provider tokens.                         *)
C40_ReturnedRecordIsHeld ==
    [][(IsStoreCall /\ backend = "kv") => HeldAsReturned(World', Val(last'.r))]_vars

(* ... for the calls that pass an rsRefresh argument *)
C40_HeldWhenRefreshGiven ==
    [][(IsStoreCall /\ backend = "kv" /\ last'.rsRefresh # 0)
           => HeldAsReturned(World', Val(last'.r))]_vars

(* ... for the calls whose KV writes are accepted *)
C40_HeldWhenWritesAccepted ==
    [][(IsStoreCall /\ backend = "kv" /\ last'.fails = {})
           => HeldAsReturned(World', Val(last'.r))]_vars

====
